---- MODULE Spec2Model ----
(***************************************************************************)
(* A model of src/src/main.cc: the UnityFS bundle rewriter.                *)
(*                                                                         *)
(*   - read_extra_length / decompress_lzak : the LZ4AK pre-transform       *)
(*   - decompress_block                    : the compression dispatcher    *)
(*   - BinaryReader / BinaryWriter         : the cursor codec              *)
(*   - process_file                        : the container codec           *)
(*                                                                         *)
(* Bytes are the integers 0..255, buffers are sequences of bytes.  The C++ *)
(* code indexes from 0, sequences index from 1: the code's data[i] is      *)
(* At(data, i).                                                            *)
(***************************************************************************)
EXTENDS Integers, Sequences, FiniteSets, TLC

VARIABLES lz,   \* one call of decompress_lzak
          db,   \* one call of decompress_block
          rd,   \* one BinaryReader
          pf    \* one call of process_file

vars == <<lz, db, rd, pf>>

(***************************************************************************)
(* Bounds of the model.                                                    *)
(***************************************************************************)
MaxLzLen == 4       \* longest generated input of decompress_lzak
MaxBlkLen == 3      \* longest generated input of decompress_block
MaxBufLen == 3      \* longest buffer under a BinaryReader
MaxReaderOps == 3   \* operations called on one BinaryReader
MaxBlocks == 2      \* most blocks in a generated bundle
MaxNodes == 2       \* most file entries in a generated bundle

(***************************************************************************)
(* Buffers.                                                                *)
(***************************************************************************)
Byte == 0..255

\* data[i] of the code.  An index outside the buffer is undefined behaviour
\* in C++; the model records every index the code uses (the "acc" sets
\* below) and sets ub in the step that uses one outside the buffer, where
\* this operator reads 0.
At(data, i) == IF i >= 0 /\ i < Len(data) THEN data[i + 1] ELSE 0

\* data[i] = b of the code.
Put(data, i, b) ==
  IF i >= 0 /\ i < Len(data) THEN [data EXCEPT ![i + 1] = b] ELSE data

\* data[from .. from+n-1]
Slice(data, from, n) == SubSeq(data, from + 1, from + n)

Zeros(n) == [k \in 1..n |-> 0]

SeqsUpTo(S, n) == UNION {[1..k -> S] : k \in 0..n}

(***************************************************************************)
(* Machine integers.  An int is the number it holds.  A uint32_t and a     *)
(* size_t are held as the int with the same low 32 bits, read as a signed  *)
(* number: 0 .. 2^31 - 1 are themselves, and a negative x stands for       *)
(* 2^32 + x of a uint32_t and for 2^64 + x of a size_t (-1 is the largest  *)
(* value of the type).  Sums and differences of such numbers are the sums  *)
(* and differences of the type, wrap-around included; the conversions      *)
(* static_cast<int>(uint32_t) and static_cast<size_t>(int) leave the       *)
(* number as it is; comparisons of unsigned values are ULess.  A uint32_t  *)
(* of 2^31 or more that becomes a size_t (U32Size) and a size_t between    *)
(* 2^31 and 2^64 - 2^31 have no number here: a step of the code that       *)
(* would compute one is outside what these definitions evaluate.           *)
(***************************************************************************)
INT_MAX == 2147483647

\* a < b of two unsigned values of the same type
ULess(a, b) == IF (a >= 0) = (b >= 0) THEN a < b ELSE a >= 0

\* a uint32_t converted to size_t
U32Size(x) == IF x >= 0 THEN x ELSE (INT_MAX + 1) + (INT_MAX + 1 + x)

\* a + b of two ints, b >= 0, overflows
int_overflows(a, b) == a > INT_MAX - b

\* a + b of two ints, b >= 0, in a build whose int wraps around
int_add(a, b) ==
  IF int_overflows(a, b) THEN (a - INT_MAX - 1) + (b - INT_MAX - 1) ELSE a + b

\* 2^64 % a, for 0 < a < 2^15
Pow64Mod(a) ==
  ((((65536 % a) * (65536 % a)) % a) * (((65536 % a) * (65536 % a)) % a)) % a

\* p % a of a size_t p, for 0 < a < 2^15
USizeMod(p, a) == IF p >= 0 THEN p % a ELSE (Pow64Mod(a) + (p % a)) % a

\* i is no index of the buffer
OutOfBuffer(data, i) == ~(i >= 0 /\ i < Len(data))

(***************************************************************************)
(* Allocations.  mem is the largest number of bytes the environment grants *)
(* to one allocation of a buffer of the program, -1 when it grants every   *)
(* one the code can ask for; std::bad_alloc leaves the statement whose      *)
(* allocation is not granted.  The buffers of the program are its vectors  *)
(* (raw_file, fixed_data, dest, dst, the copy of src, the vector of        *)
(* read_bytes, blocks, nodes, all_decompressed_data, new_blocks,           *)
(* new_block_info_blob) and the strings read_string builds.  The text of   *)
(* its messages and the buffers inside the streams and the codec libraries *)
(* are not counted.  count is a uint32_t or a size_t, elem the size of an  *)
(* element.  Vectors and strings grow as those of libstdc++ do.            *)
(***************************************************************************)
alloc_fails(count, elem, mem) ==
  mem # -1 /\ (count < 0 \/ count > mem \div elem)

\* The vector behind v.insert(v.end(), first, first + n) of the elements
\* bytes, for a vector that holds data in a capacity of cap.  It allocates
\* when n # 0 and the capacity left is less than n, and then a capacity of
\* size + max(size, n); thrown when that allocation is not granted, and the
\* vector is then as it was.
vector_insert(data, cap, bytes, elem, mem) ==
  LET size  == Len(data)
      n     == Len(bytes)
      grows == n # 0 /\ cap - size < n
      grown == size + (IF size > n THEN size ELSE n)
  IN  IF grows /\ alloc_fails(grown, elem, mem)
      THEN [thrown |-> TRUE, data |-> data, cap |-> cap]
      ELSE [thrown |-> FALSE, data |-> data \o bytes,
            cap |-> IF grows THEN grown ELSE cap]

\* The capacity of a vector that push_back alone has filled with size
\* elements is the least power of two that holds them; it is full when
\* size is 0 or a power of two.
RECURSIVE vector_is_full(_)
vector_is_full(size) ==
  size <= 1 \/ (size % 2 = 0 /\ vector_is_full(size \div 2))

\* v.push_back(x) on such a vector of size elements: a full one allocates
\* a capacity of size + max(size, 1)
push_back_fails(size, elem, mem) ==
  vector_is_full(size)
    /\ alloc_fails(IF size = 0 THEN 1 ELSE 2 * size, elem, mem)

(***************************************************************************)
(* read_extra_length (main.cc 38-48).  The result carries the length, the  *)
(* cursor after the call and the set of indices data[] was read at.        *)
(* length += b overflows the int after 8421505 bytes of 0xFF, which is     *)
(* undefined: ub says that it happened, and length is then what a build    *)
(* with a wrapping int computes; a build that traps ends the process (the  *)
(* steps that call this decide between the two).                           *)
(***************************************************************************)
RECURSIVE read_extra_length_loop(_, _, _, _, _)
read_extra_length_loop(data, cursor, length, acc, ub) ==
  IF ULess(cursor, Len(data))
  THEN IF At(data, cursor) # 255
       THEN [length |-> int_add(length, At(data, cursor)),
             cursor |-> cursor + 1, acc |-> acc \cup {cursor},
             ub |-> ub \/ int_overflows(length, At(data, cursor))]
       ELSE read_extra_length_loop(
              data, cursor + 1, int_add(length, At(data, cursor)),
              acc \cup {cursor},
              ub \/ int_overflows(length, At(data, cursor)))
  ELSE [length |-> length, cursor |-> cursor, acc |-> acc, ub |-> ub]

\* A read_extra_length that stops in front of the terminal byte instead of
\* consuming and adding it.
RECURSIVE read_extra_length_noterm_loop(_, _, _, _, _)
read_extra_length_noterm_loop(data, cursor, length, acc, ub) ==
  IF ULess(cursor, Len(data))
  THEN IF At(data, cursor) # 255
       THEN [length |-> length, cursor |-> cursor,
             acc |-> acc \cup {cursor}, ub |-> ub]
       ELSE read_extra_length_noterm_loop(
              data, cursor + 1, int_add(length, At(data, cursor)),
              acc \cup {cursor},
              ub \/ int_overflows(length, At(data, cursor)))
  ELSE [length |-> length, cursor |-> cursor, acc |-> acc, ub |-> ub]

read_extra_length_noterm(data, cursor) ==
  read_extra_length_noterm_loop(data, cursor, 0, {}, FALSE)

read_extra_length(data, cursor) ==
  read_extra_length_loop(data, cursor, 0, {}, FALSE)

(***************************************************************************)
(* LZ4_decompress_safe, as decompress_lzak and decompress_block call it    *)
(* (main.cc 114-117, 162-165): the block decoder of lz4 1.9.4              *)
(* (LZ4_decompress_generic, end on input size, full block, no dictionary,  *)
(* fast loop enabled).  The decoder copies in strides of 4, 8, 16 and 32   *)
(* bytes, so it writes behind the bytes it reports; the result is the      *)
(* status (a byte count, or -(ip) - 1 at the input position of an error)   *)
(* and the whole destination buffer, which the callers allocate            *)
(* zero-filled with outputSize bytes.  ip and op are offsets into src and  *)
(* dst.                                                                    *)
(***************************************************************************)
FASTLOOP_SAFE_DISTANCE == 64

inc32table == <<0, 1, 2, 1, 0, 4, 4, 4>>
dec64table == <<0, 0, 0, -1, -4, 1, 2, 3>>

\* The n bytes of buf from offset s on.
Load(buf, s, n) == [j \in 1..n |-> At(buf, s + j - 1)]

\* buf with bytes stored at offset d.
Store(buf, d, bytes) ==
  [k \in 1..Len(buf) |->
     IF d < k /\ k <= d + Len(bytes) THEN bytes[k - d] ELSE buf[k]]

\* memcpy(dst + d, src + s, n)
LZ4_memcpy_in(dst, d, src, s, n) == Store(dst, d, Load(src, s, n))

\* memcpy(dst + d, dst + s, n): the n bytes are loaded, then stored
LZ4_memcpy(dst, d, s, n) == Store(dst, d, Load(dst, s, n))

\* while (d < e) *d++ = *s++, inside dst
RECURSIVE LZ4_copy_bytes(_, _, _, _)
LZ4_copy_bytes(dst, d, s, e) ==
  IF d < e THEN LZ4_copy_bytes(Put(dst, d, At(dst, s)), d + 1, s + 1, e)
  ELSE dst

\* do { memcpy(d, s, 8); d += 8; s += 8; } while (d < e), inside dst
RECURSIVE LZ4_wildCopy8(_, _, _, _)
LZ4_wildCopy8(dst, d, s, e) ==
  IF d + 8 < e THEN LZ4_wildCopy8(LZ4_memcpy(dst, d, s, 8), d + 8, s + 8, e)
  ELSE LZ4_memcpy(dst, d, s, 8)

\* the same, from the input
RECURSIVE LZ4_wildCopy8_in(_, _, _, _, _)
LZ4_wildCopy8_in(dst, d, src, s, e) ==
  IF d + 8 < e
  THEN LZ4_wildCopy8_in(LZ4_memcpy_in(dst, d, src, s, 8), d + 8, src, s + 8, e)
  ELSE LZ4_memcpy_in(dst, d, src, s, 8)

\* do { memcpy(d, s, 16); memcpy(d+16, s+16, 16); d += 32; s += 32; }
\* while (d < e), inside dst
RECURSIVE LZ4_wildCopy32(_, _, _, _)
LZ4_wildCopy32(dst, d, s, e) ==
  IF d + 32 < e
  THEN LZ4_wildCopy32(LZ4_memcpy(LZ4_memcpy(dst, d, s, 16),
                                 d + 16, s + 16, 16),
                      d + 32, s + 32, e)
  ELSE LZ4_memcpy(LZ4_memcpy(dst, d, s, 16), d + 16, s + 16, 16)

\* the same, from the input
RECURSIVE LZ4_wildCopy32_in(_, _, _, _, _)
LZ4_wildCopy32_in(dst, d, src, s, e) ==
  IF d + 32 < e
  THEN LZ4_wildCopy32_in(LZ4_memcpy_in(dst, d, src, s, 32), d + 32, src,
                         s + 32, e)
  ELSE LZ4_memcpy_in(dst, d, src, s, 32)

\* The first 8 bytes of a match at distance offset from op: for offset < 8
\* four bytes one by one, then four more through inc32table.
LZ4_match_head(dst, op, offset) ==
  IF offset < 8
  THEN LZ4_memcpy(
         LZ4_copy_bytes(Store(dst, op, <<0, 0, 0, 0>>), op, op - offset,
                        op + 4),
         op + 4, op - offset + inc32table[offset + 1], 4)
  ELSE LZ4_memcpy(dst, op, op - offset, 8)

\* Where the match pointer stands behind LZ4_match_head.
LZ4_match_next(op, offset) ==
  IF offset < 8
  THEN op - offset + inc32table[offset + 1] - dec64table[offset + 1]
  ELSE op - offset + 8

\* LZ4_memcpy_using_offset_base(dst + d, dst + d - offset, dst + e, offset)
LZ4_memcpy_using_offset_base(dst, d, e, offset) ==
  LZ4_wildCopy8(LZ4_match_head(dst, d, offset), d + 8,
                LZ4_match_next(d, offset), e)

\* The pattern v stored in strides of 8 from d up to e.
RECURSIVE LZ4_store_pattern(_, _, _, _)
LZ4_store_pattern(dst, d, e, v) ==
  IF d + 8 < e THEN LZ4_store_pattern(Store(dst, d, v), d + 8, e, v)
  ELSE Store(dst, d, v)

\* LZ4_memcpy_using_offset(dst + d, dst + d - offset, dst + e, offset)
LZ4_memcpy_using_offset(dst, d, e, offset) ==
  CASE offset = 1 ->
         LZ4_store_pattern(dst, d, e, [j \in 1..8 |-> At(dst, d - 1)])
    [] offset = 2 ->
         LZ4_store_pattern(dst, d, e,
                           [j \in 1..8 |-> At(dst, d - 2 + ((j - 1) % 2))])
    [] offset = 4 ->
         LZ4_store_pattern(dst, d, e,
                           [j \in 1..8 |-> At(dst, d - 4 + ((j - 1) % 4))])
    [] OTHER -> LZ4_memcpy_using_offset_base(dst, d, e, offset)

\* The 18 bytes that the two shortcuts copy for a match of distance >= 8.
LZ4_copy18(dst, op, match) ==
  LZ4_memcpy(LZ4_memcpy(LZ4_memcpy(dst, op, match, 8), op + 8, match + 8, 8),
             op + 16, match + 16, 2)

\* read_variable_length: the bytes added up, the input position behind them
\* and the error.
RECURSIVE LZ4_read_variable_length_loop(_, _, _, _, _)
LZ4_read_variable_length_loop(src, ip, lencheck, loop_check, length) ==
  IF loop_check /\ ip + 1 > lencheck
  THEN [length |-> length + At(src, ip), ip |-> ip + 1, error |-> "loop_error"]
  ELSE IF At(src, ip) = 255
  THEN LZ4_read_variable_length_loop(src, ip + 1, lencheck, loop_check,
                                     length + 255)
  ELSE [length |-> length + At(src, ip), ip |-> ip + 1, error |-> "ok"]

LZ4_read_variable_length(src, ip, lencheck, loop_check, initial_check) ==
  IF initial_check /\ ip >= lencheck
  THEN [length |-> 0, ip |-> ip, error |-> "initial_error"]
  ELSE LZ4_read_variable_length_loop(src, ip, lencheck, loop_check, 0)

\* _output_error: return -(ip - src) - 1
LZ4_output_error(ip, dst) == [res |-> -ip - 1, dst |-> dst]

LZ4_readLE16(src, ip) == At(src, ip) + 256 * At(src, ip + 1)

RECURSIVE LZ4_fast_loop(_, _, _, _)
RECURSIVE LZ4_safe_loop(_, _, _, _)

\* The rest of a match behind its first 8 bytes, in the main loop: op is
\* behind those bytes, cpy the end of the match.
LZ4_match_tail(src, ip, dst, op, match, cpy) ==
  IF cpy > Len(dst) - 12
  THEN IF cpy > Len(dst) - 5 THEN LZ4_output_error(ip, dst)
       ELSE IF op < Len(dst) - 7
       THEN LZ4_safe_loop(
              src, ip,
              LZ4_copy_bytes(LZ4_wildCopy8(dst, op, match, Len(dst) - 7),
                             Len(dst) - 7, match + (Len(dst) - 7 - op), cpy),
              cpy)
       ELSE LZ4_safe_loop(src, ip, LZ4_copy_bytes(dst, op, match, cpy), cpy)
  ELSE IF cpy - (op - 8) > 16
  THEN LZ4_safe_loop(src, ip,
                     LZ4_wildCopy8(LZ4_memcpy(dst, op, match, 8), op + 8,
                                   match + 8, cpy),
                     cpy)
  ELSE LZ4_safe_loop(src, ip, LZ4_memcpy(dst, op, match, 8), cpy)

\* safe_match_copy: a match of length bytes at distance offset
LZ4_safe_match_copy(src, ip, dst, op, offset, length) ==
  IF offset > op THEN LZ4_output_error(ip, dst)
  ELSE LZ4_match_tail(src, ip, LZ4_match_head(dst, op, offset), op + 8,
                      LZ4_match_next(op, offset), op + length)

\* _copy_match, given the extension v of a match length of 15
LZ4_long_match(src, v, dst, op, offset) ==
  IF v.error # "ok" THEN LZ4_output_error(v.ip, dst)
  ELSE LZ4_safe_match_copy(src, v.ip, dst, op, offset, 15 + v.length + 4)

\* _copy_match: length is the match-length nibble of the token
LZ4_copy_match(src, length, ip, dst, op, offset) ==
  IF length = 15
  THEN LZ4_long_match(src,
                      LZ4_read_variable_length(src, ip, Len(src) - 5 + 1,
                                               TRUE, FALSE),
                      dst, op, offset)
  ELSE LZ4_safe_match_copy(src, ip, dst, op, offset, length + 4)

\* safe_literal_copy: length literals at ip, the last ones of the block or
\* followed by a match
LZ4_safe_literal_copy(src, token, ip, length, dst, op) ==
  IF op + length > Len(dst) - 12 \/ ip + length > Len(src) - 8
  THEN IF ip + length # Len(src) \/ op + length > Len(dst)
       THEN LZ4_output_error(ip, dst)
       ELSE [res |-> op + length,
             dst |-> LZ4_memcpy_in(dst, op, src, ip, length)]
  ELSE LZ4_copy_match(src, token % 16, ip + length + 2,
                      LZ4_wildCopy8_in(dst, op, src, ip, op + length),
                      op + length, LZ4_readLE16(src, ip + length))

\* The main loop, given the extension v of a literal length of 15.
LZ4_safe_long_literals(src, token, v, dst, op) ==
  IF v.error = "initial_error" THEN LZ4_output_error(v.ip, dst)
  ELSE LZ4_safe_literal_copy(src, token, v.ip, 15 + v.length, dst, op)

\* The second stage of the shortcut of the main loop: ip is at the offset,
\* the literals are copied.
LZ4_shortcut_match(src, token, ip, dst, op) ==
  IF /\ token % 16 # 15
     /\ LZ4_readLE16(src, ip) >= 8
     /\ LZ4_readLE16(src, ip) <= op
  THEN LZ4_safe_loop(src, ip + 2,
                     LZ4_copy18(dst, op, op - LZ4_readLE16(src, ip)),
                     op + (token % 16) + 4)
  ELSE LZ4_copy_match(src, token % 16, ip + 2, dst, op,
                      LZ4_readLE16(src, ip))

\* The main loop (safe_decode): one sequence from the token at ip
LZ4_safe_loop(src, ip, dst, op) ==
  IF /\ At(src, ip) \div 16 # 15
     /\ ip + 1 < Len(src) - 14 - 2
     /\ op <= Len(dst) - 14 - 18
  THEN LZ4_shortcut_match(src, At(src, ip),
                          ip + 1 + (At(src, ip) \div 16),
                          LZ4_memcpy_in(dst, op, src, ip + 1, 16),
                          op + (At(src, ip) \div 16))
  ELSE IF At(src, ip) \div 16 = 15
  THEN LZ4_safe_long_literals(src, At(src, ip),
                              LZ4_read_variable_length(src, ip + 1,
                                                       Len(src) - 15,
                                                       TRUE, TRUE),
                              dst, op)
  ELSE LZ4_safe_literal_copy(src, At(src, ip), ip + 1, At(src, ip) \div 16,
                             dst, op)

\* The match copy of the fast loop.
LZ4_fast_match_copy(src, ip, dst, op, offset, length) ==
  IF offset > op THEN LZ4_output_error(ip, dst)
  ELSE IF offset < 16
  THEN LZ4_fast_loop(src, ip,
                     LZ4_memcpy_using_offset(dst, op, op + length, offset),
                     op + length)
  ELSE LZ4_fast_loop(src, ip,
                     LZ4_wildCopy32(dst, op, op - offset, op + length),
                     op + length)

\* The fast loop, given the extension v of a match length of 15.
LZ4_fast_long_match(src, v, dst, op, offset) ==
  IF v.error # "ok" THEN LZ4_output_error(v.ip, dst)
  ELSE IF op + 15 + v.length + 4 >= Len(dst) - FASTLOOP_SAFE_DISTANCE
  THEN LZ4_safe_match_copy(src, v.ip, dst, op, offset, 15 + v.length + 4)
  ELSE LZ4_fast_match_copy(src, v.ip, dst, op, offset, 15 + v.length + 4)

\* The fast loop behind the literals: ip is at the offset.
LZ4_fast_match(src, token, ip, dst, op) ==
  IF token % 16 = 15
  THEN LZ4_fast_long_match(src,
                           LZ4_read_variable_length(src, ip + 2,
                                                    Len(src) - 5 + 1,
                                                    TRUE, FALSE),
                           dst, op, LZ4_readLE16(src, ip))
  ELSE IF op + (token % 16) + 4 >= Len(dst) - FASTLOOP_SAFE_DISTANCE
  THEN LZ4_safe_match_copy(src, ip + 2, dst, op, LZ4_readLE16(src, ip),
                           (token % 16) + 4)
  ELSE IF LZ4_readLE16(src, ip) <= op /\ LZ4_readLE16(src, ip) >= 8
  THEN LZ4_fast_loop(src, ip + 2,
                     LZ4_copy18(dst, op, op - LZ4_readLE16(src, ip)),
                     op + (token % 16) + 4)
  ELSE LZ4_fast_match_copy(src, ip + 2, dst, op, LZ4_readLE16(src, ip),
                           (token % 16) + 4)

\* The fast loop, given the extension v of a literal length of 15.
LZ4_fast_long_literals(src, token, v, dst, op) ==
  IF v.error = "initial_error" THEN LZ4_output_error(v.ip, dst)
  ELSE IF \/ op + 15 + v.length > Len(dst) - 32
          \/ v.ip + 15 + v.length > Len(src) - 32
  THEN LZ4_safe_literal_copy(src, token, v.ip, 15 + v.length, dst, op)
  ELSE LZ4_fast_match(src, token, v.ip + 15 + v.length,
                      LZ4_wildCopy32_in(dst, op, src, v.ip,
                                        op + 15 + v.length),
                      op + 15 + v.length)

\* The fast loop: one sequence from the token at ip
LZ4_fast_loop(src, ip, dst, op) ==
  IF At(src, ip) \div 16 = 15
  THEN LZ4_fast_long_literals(src, At(src, ip),
                              LZ4_read_variable_length(src, ip + 1,
                                                       Len(src) - 15,
                                                       TRUE, TRUE),
                              dst, op)
  ELSE IF ip + 1 > Len(src) - (16 + 1)
  THEN LZ4_safe_literal_copy(src, At(src, ip), ip + 1, At(src, ip) \div 16,
                             dst, op)
  ELSE LZ4_fast_match(src, At(src, ip), ip + 1 + (At(src, ip) \div 16),
                      LZ4_memcpy_in(dst, op, src, ip + 1, 16),
                      op + (At(src, ip) \div 16))

LZ4_decompress_safe(src, outputSize) ==
  IF outputSize < 0 THEN [res |-> -1, dst |-> <<>>]
  ELSE IF outputSize = 0
  THEN [res |-> IF Len(src) = 1 /\ At(src, 0) = 0 THEN 0 ELSE -1, dst |-> <<>>]
  ELSE IF Len(src) = 0 THEN [res |-> -1, dst |-> Zeros(outputSize)]
  ELSE IF outputSize < FASTLOOP_SAFE_DISTANCE
  THEN LZ4_safe_loop(src, 0, Zeros(outputSize), 0)
  ELSE LZ4_fast_loop(src, 0, Zeros(outputSize), 0)

(***************************************************************************)
(* decompress_lzak (main.cc 61-131).                                       *)
(*                                                                         *)
(* The state of the rewrite loop is a record: fixed_data, ip and op are    *)
(* the code's variables, brk says that a break left the loop.  The other   *)
(* fields are the model's own record of what the loop did: tokens and      *)
(* dists are the indices of the token bytes and of the first byte of each  *)
(* distance pair it rewrote, acc the indices fixed_data[] was read or      *)
(* written at, token_at, current_literal_len and current_match_len the     *)
(* locals of the iteration just run (-1 when it did not come to set one),  *)
(* literal_end the value of ip after main.cc 88, iters the number of       *)
(* iterations run, ub whether the loop has done something undefined (an    *)
(* int overflow in read_extra_length, or an index outside fixed_data),      *)
(* thrown whether the copy of main.cc 67 was not granted, and              *)
(* compressed_data the bytes under the caller's span, which the loop       *)
(* leaves alone: every write of the loop goes to the copy fixed_data.      *)
(* ip and op are size_t: a negative length that read_extra_length returns  *)
(* after an overflow is converted to size_t and added modulo 2^64          *)
(* (main.cc 85-89), which moves ip and op back.                            *)
(***************************************************************************)
NibbleSwap(token) == (token % 16) * 16 + (token \div 16)

\* main.cc 67-72: fixed_data is a copy of the bytes of compressed_data, as
\* long as they are; std::bad_alloc leaves the function when the copy is
\* not granted.
lzak_start(compressed_data, mem) ==
  [compressed_data |-> compressed_data,
   thrown |-> alloc_fails(Len(compressed_data), 1, mem),
   fixed_data |-> IF alloc_fails(Len(compressed_data), 1, mem) THEN <<>>
                  ELSE compressed_data,
   ip |-> 0, op |-> 0, brk |-> FALSE,
   tokens |-> {}, dists |-> {}, acc |-> {}, token_at |-> -1,
   current_literal_len |-> -1, current_match_len |-> -1,
   literal_end |-> -1, iters |-> 0, ub |-> FALSE]

\* The loop condition of main.cc 74, with the breaks of 91-96.
lzak_running(s) == ~s.thrown /\ ~s.brk /\ ULess(s.ip, Len(s.fixed_data))

\* main.cc 91: op >= static_cast<size_t>(uncompressed_size).  The cast maps
\* a negative int to 2^64 + uncompressed_size.
lzak_target_reached(op, uncompressed_size) == ~ULess(op, uncompressed_size)

\* A rewrite that leaves the token byte as it is.
lzak_token_keep(token) == token

\* main.cc 80: fixed_data[ip] = (literal_len << 4) | match_len_nibble
lzak_token(token) == NibbleSwap(token)

\* main.cc 95: the negation of  ip + 2 > size
lzak_dist_room(ip, size) == ~ULess(size, ip + 2)

\* main.cc 98-110: the distance pair at s2.ip is exchanged and the match
\* length read; s2 is the state behind main.cc 96, mext the match-length
\* extension read in the buffer fd2.  After ip has moved back behind 0 the
\* check of main.cc 95 passes for ip = 2^64 - 2 and 2^64 - 1, and the pair
\* lies outside the buffer.
lzak_match(s2, match_len_nibble, fd2, mext) ==
  [s2 EXCEPT !.fixed_data = fd2, !.ip = mext.cursor,
             !.op = @ + match_len_nibble + mext.length + 4,
             !.dists = @ \cup {s2.ip},
             !.acc = @ \cup {s2.ip, s2.ip + 1} \cup mext.acc,
             !.current_match_len = match_len_nibble + mext.length,
             !.ub = @ \/ mext.ub \/ OutOfBuffer(fd2, s2.ip)
                      \/ OutOfBuffer(fd2, s2.ip + 1)]

\* main.cc 98-108, in the buffer fd2 with the pair exchanged
lzak_match_length(s2, match_len_nibble, fd2) ==
  lzak_match(s2, match_len_nibble, fd2,
             IF match_len_nibble = 15
             THEN read_extra_length(fd2, s2.ip + 2)
             ELSE [length |-> 0, cursor |-> s2.ip + 2, acc |-> {},
                   ub |-> FALSE])

\* main.cc 91-102: the two breaks, then the exchange of the pair
lzak_distance(s2, match_len_nibble, uncompressed_size) ==
  IF lzak_target_reached(s2.op, uncompressed_size)
  THEN [s2 EXCEPT !.brk = TRUE]
  ELSE IF ~lzak_dist_room(s2.ip, Len(s2.fixed_data))
  THEN [s2 EXCEPT !.brk = TRUE]
  ELSE lzak_match_length(
         s2, match_len_nibble,
         Put(Put(s2.fixed_data, s2.ip, At(s2.fixed_data, s2.ip + 1)),
             s2.ip + 1, At(s2.fixed_data, s2.ip)))

\* main.cc 83-89: the literals are passed over; fd1 is the buffer with the
\* token rewritten, ext the literal-length extension read in it.
lzak_literals(s, token, fd1, ext) ==
  [s EXCEPT !.fixed_data = fd1,
            !.ip = ext.cursor + (token % 16) + ext.length,
            !.op = @ + (token % 16) + ext.length,
            !.tokens = @ \cup {s.ip},
            !.acc = @ \cup {s.ip} \cup ext.acc,
            !.token_at = s.ip,
            !.current_literal_len = (token % 16) + ext.length,
            !.current_match_len = -1,
            !.literal_end = ext.cursor + (token % 16) + ext.length,
            !.iters = @ + 1,
            !.ub = @ \/ ext.ub]

\* main.cc 83-86, in the buffer fd1 with the token rewritten
lzak_literal_length(s, token, fd1) ==
  lzak_literals(s, token, fd1,
                IF token % 16 = 15
                THEN read_extra_length(fd1, s.ip + 1)
                ELSE [length |-> 0, cursor |-> s.ip + 1, acc |-> {},
                      ub |-> FALSE])

\* main.cc 76-81: literal_len is token % 16, match_len_nibble token \div 16
lzak_rewrite_token(s, token) ==
  lzak_literal_length(s, token, Put(s.fixed_data, s.ip, lzak_token(token)))

\* One iteration of the loop, main.cc 76-110.
lzak_iteration(s, uncompressed_size) ==
  lzak_distance(lzak_rewrite_token(s, At(s.fixed_data, s.ip)),
                At(s.fixed_data, s.ip) \div 16, uncompressed_size)

RECURSIVE lzak_loop(_, _)
lzak_loop(s, uncompressed_size) ==
  IF lzak_running(s) THEN lzak_loop(lzak_iteration(s, uncompressed_size),
                                    uncompressed_size)
  ELSE s

\* main.cc 119-130, given the status and the buffer of the decoder
lzak_result(r, uncompressed_size, ub) ==
  IF r.res < 0
  THEN [ok |-> FALSE, err |-> "LZ4AK decompression failed", data |-> <<>>,
        reported |-> 0, ub |-> ub]
  ELSE [ok |-> TRUE, err |-> "",
        data |-> IF r.res # uncompressed_size
                 THEN SubSeq(r.dst, 1, r.res) ELSE r.dst,
        reported |-> r.res, ub |-> ub]

\* main.cc 113-130, given the state s the loop left (or the state in which
\* the copy of main.cc 67 threw).  std::vector<uint8_t>
\* dest(uncompressed_size) converts the int to size_t: a negative size asks
\* for more than max_size() elements and throws std::length_error, a size
\* the environment does not grant std::bad_alloc, both before
\* LZ4_decompress_safe is called.
lzak_finish(s, uncompressed_size, mem) ==
  IF s.thrown
  THEN [ok |-> FALSE, err |-> "bad_alloc", data |-> <<>>, reported |-> 0,
        ub |-> FALSE]
  ELSE IF uncompressed_size < 0
  THEN [ok |-> FALSE, err |-> "length_error", data |-> <<>>, reported |-> 0,
        ub |-> s.ub]
  ELSE IF alloc_fails(uncompressed_size, 1, mem)
  THEN [ok |-> FALSE, err |-> "bad_alloc", data |-> <<>>, reported |-> 0,
        ub |-> s.ub]
  ELSE lzak_result(LZ4_decompress_safe(s.fixed_data, uncompressed_size),
                   uncompressed_size, s.ub)

\* The whole function: ok, the error thrown, the vector returned, the byte
\* count the decoder reported, and whether the loop did something
\* undefined on the way.
decompress_lzak(compressed_data, uncompressed_size, mem) ==
  IF Len(compressed_data) = 0
  THEN [ok |-> TRUE, err |-> "", data |-> <<>>, reported |-> 0, ub |-> FALSE]
  ELSE lzak_finish(lzak_loop(lzak_start(compressed_data, mem),
                             uncompressed_size),
                   uncompressed_size, mem)

(***************************************************************************)
(* decompress_lzak, one loop iteration per step.                           *)
(***************************************************************************)
LzAlphabet == {0, 1, 15, 240, 255}

\* A valid LZ4AK stream with a match: literal "A", distance 1, match
\* length 4, then 8 literals; it decodes to 13 bytes.
LzMatchStream == <<1, 65, 0, 1, 8, 66, 67, 68, 69, 70, 71, 72, 73>>

LzInputs ==
  SeqsUpTo(LzAlphabet, MaxLzLen)
    \cup {<<15, 255, 255, 5>>, <<31, 255, 255, 5, 65>>,
          <<240, 1, 0, 255, 255, 5>>, <<2, 65, 66>>, LzMatchStream}

LzSizes == {-1, 0, 1, 2, 13, 20}

\* The largest allocation of the environments tried: every one, 1 byte, or
\* 4 bytes (the inputs of up to 4 bytes are copied, dest of more is not
\* granted).
LzMems == {-1, 1, 4}

\* given is the model's record of the bytes the caller passed;
\* compressed_data is what the caller's buffer holds now.
LzIdle ==
  [pc |-> "idle", given |-> <<>>, compressed_data |-> <<>>,
   uncompressed_size |-> 0,
   mem |-> -1, s |-> lzak_start(<<>>, -1), prev_ip |-> -1, out |-> <<>>,
   err |-> ""]

\* What a step can lead to that would lead to the record next: next, and
\* when the step did something undefined also the end of the process.
UbOutcomes(next, ub) ==
  IF ub THEN {next, [next EXCEPT !.pc = "aborted"]} ELSE {next}

LzReturn(r) ==
  [lz EXCEPT !.pc = IF r.ok THEN "returned" ELSE "thrown",
             !.out = r.data, !.err = r.err]

\* main.cc 64-72
LzakEnter ==
  /\ lz.pc = "call"
  /\ lz' = IF Len(lz.compressed_data) = 0
           THEN [lz EXCEPT !.pc = "returned"]
           ELSE IF lzak_start(lz.compressed_data, lz.mem).thrown
           THEN [lz EXCEPT !.pc = "thrown", !.err = "bad_alloc",
                           !.s = lzak_start(lz.compressed_data, lz.mem)]
           ELSE [lz EXCEPT !.pc = "loop",
                           !.s = lzak_start(lz.compressed_data, lz.mem),
                           !.compressed_data =
                              lzak_start(lz.compressed_data,
                                         lz.mem).compressed_data]
  /\ UNCHANGED <<db, rd, pf>>

\* main.cc 74-111, one iteration
LzakIterate ==
  /\ lz.pc = "loop"
  /\ lzak_running(lz.s)
  /\ lz' \in UbOutcomes(
              [lz EXCEPT !.s = lzak_iteration(lz.s, lz.uncompressed_size),
                         !.compressed_data =
                            lzak_iteration(lz.s, lz.uncompressed_size)
                              .compressed_data,
                         !.prev_ip = lz.s.ip],
              lzak_iteration(lz.s, lz.uncompressed_size).ub)
  /\ UNCHANGED <<db, rd, pf>>

\* main.cc 113-130
LzakDecode ==
  /\ lz.pc = "loop"
  /\ ~lzak_running(lz.s)
  /\ lz' = LzReturn(lzak_finish(lz.s, lz.uncompressed_size, lz.mem))
  /\ UNCHANGED <<db, rd, pf>>

InitLzak ==
  /\ \E d \in LzInputs, n \in LzSizes, m \in LzMems :
       lz = [LzIdle EXCEPT !.pc = "call", !.given = d,
                           !.compressed_data = d,
                           !.uncompressed_size = n, !.mem = m]
  /\ db = 0 /\ rd = 0 /\ pf = 0

NextLzak == LzakEnter \/ LzakIterate \/ LzakDecode

SpecLzak == InitLzak /\ [][NextLzak]_vars

(***************************************************************************)
(* decompress_block (main.cc 133-196).                                     *)
(*                                                                         *)
(* LzmaUncompress and lzham_decompress_memory are libraries the model does *)
(* not decode: their answer is the fields ok and n of the parameter o, any *)
(* status with any byte count n up to the declared size.  The n bytes they *)
(* write are shown as 0xAA; the rest of dst keeps the zeros it was         *)
(* allocated with.  The field mem of o is the largest allocation the       *)
(* environment grants.                                                     *)
(*                                                                         *)
(* decompressed_size is a uint32_t.  static_cast<int> (main.cc 165) and    *)
(* the int parameter of decompress_lzak (main.cc 173) turn a size of 2^31  *)
(* or more into a negative int; dst and dst_len take it as the size_t      *)
(* U32Size(decompressed_size).                                             *)
(***************************************************************************)
Oracles(size, mem) ==
  {[ok |-> FALSE, n |-> 0, mem |-> mem]}
    \cup {[ok |-> TRUE, n |-> k, mem |-> mem] : k \in 0..U32Size(size)}

OracleDst(o, size) == [k \in 1..size |-> IF k <= o.n THEN 170 ELSE 0]

Thrown(msg) ==
  [ok |-> FALSE, err |-> msg, data |-> <<>>, reported |-> 0, ub |-> FALSE]

Returned(data, reported) ==
  [ok |-> TRUE, err |-> "", data |-> data, reported |-> reported,
   ub |-> FALSE]

\* main.cc 166-168, given the status and the buffer of the decoder
lz4_block(r) ==
  IF r.res < 0 THEN Thrown("LZ4 Decomp failed") ELSE Returned(r.dst, r.res)

\* main.cc 143-193: the switch, behind the allocation of dst
decompress_switch(type, src, decompressed_size, mode, o) ==
  CASE type = 1 ->
         IF Len(src) < 5 THEN Thrown("Invalid LZMA data")
         ELSE IF ~o.ok THEN Thrown("LZMA Decomp failed")
         ELSE Returned(OracleDst(o, U32Size(decompressed_size)), o.n)
    [] type \in {2, 3} ->
         lz4_block(LZ4_decompress_safe(src, decompressed_size))
    [] type = 4 ->
         IF mode = "Arknights"
         THEN decompress_lzak(src, decompressed_size, o.mem)
         ELSE IF ~o.ok THEN Thrown("LZHAM Decomp failed")
         ELSE Returned(OracleDst(o, U32Size(decompressed_size)), o.n)
    [] OTHER -> Thrown("Unknown compression type")

\* main.cc 137-141: None returns a copy of src, a vector of its own; every
\* other type, a known one or not, first allocates dst
decompress_block(type, src, decompressed_size, mode, o) ==
  IF type = 0
  THEN IF alloc_fails(Len(src), 1, o.mem) THEN Thrown("bad_alloc")
       ELSE Returned(src, Len(src))
  ELSE IF alloc_fails(decompressed_size, 1, o.mem) THEN Thrown("bad_alloc")
  ELSE decompress_switch(type, src, decompressed_size, mode, o)

\* Whether decompress_block asks a library the model does not decode.
UsesOracle(type, src, mode) ==
  \/ type = 1 /\ Len(src) >= 5
  \/ type = 4 /\ mode # "Arknights"

OraclesFor(type, src, decompressed_size, mode, mem) ==
  IF UsesOracle(type, src, mode) /\ ~alloc_fails(decompressed_size, 1, mem)
  THEN Oracles(decompressed_size, mem)
  ELSE {[ok |-> TRUE, n |-> 0, mem |-> mem]}

(***************************************************************************)
(* decompress_block, one call per behaviour.                               *)
(***************************************************************************)
BlkAlphabet == {0, 1, 16, 65}

\* LzMatchStream as plain LZ4: the same 13 bytes come out of it.
Lz4MatchStream == <<16, 65, 1, 0, 128, 66, 67, 68, 69, 70, 71, 72, 73>>

BlkInputs ==
  SeqsUpTo(BlkAlphabet, MaxBlkLen)
    \cup {<<93, 0, 0, 0, 1, 0>>, LzMatchStream, Lz4MatchStream}

\* The declared sizes tried; -INT_MAX - 1, -13 and -1 are the uint32_t
\* 2147483648, 4294967283 and 4294967295.
BlkSizes == {0, 1, 2, 3, 13, 17, 20, -INT_MAX - 1, -13, -1}

\* The largest allocation of the environments tried: every one, or 2 bytes.
BlkMems == {-1, 2}

GameModes == {"Standard", "Arknights"}

\* A library that reports success on a dst of 2^31 bytes or more returns a
\* vector that is no sequence of the model; these calls are left out.
BlkInModel(type, src, decompressed_size, mode, mem) ==
  decompressed_size < 0 /\ UsesOracle(type, src, mode) => mem # -1

DbIdle ==
  [pc |-> "idle", type |-> 0, src |-> <<>>, decompressed_size |-> 0,
   mode |-> "Standard", mem |-> -1, data |-> <<>>, reported |-> 0,
   err |-> ""]

DbReturn(r) ==
  UbOutcomes([db EXCEPT !.pc = IF r.ok THEN "returned" ELSE "thrown",
                        !.data = r.data, !.reported = r.reported,
                        !.err = r.err],
             r.ub)

DecompressBlockCall ==
  /\ db.pc = "call"
  /\ \E o \in OraclesFor(db.type, db.src, db.decompressed_size, db.mode,
                         db.mem) :
       db' \in DbReturn(decompress_block(db.type, db.src,
                                         db.decompressed_size, db.mode, o))
  /\ UNCHANGED <<lz, rd, pf>>

InitBlock ==
  /\ \E t \in 0..5, d \in BlkInputs, n \in BlkSizes, m \in GameModes,
        a \in BlkMems :
       /\ BlkInModel(t, d, n, m, a)
       /\ db = [DbIdle EXCEPT !.pc = "call", !.type = t, !.src = d,
                              !.decompressed_size = n, !.mode = m,
                              !.mem = a]
  /\ lz = 0 /\ rd = 0 /\ pf = 0

NextBlock == DecompressBlockCall

SpecBlock == InitBlock /\ [][NextBlock]_vars

\* C3 as the spec states it: a buffer that decompress_block returns has the
\* declared size, or, when the codec reported fewer bytes, the reported
\* size; it never holds bytes the codec did not produce.
C3_Original ==
  db.pc = "returned" =>
    /\ \/ Len(db.data) = db.decompressed_size
       \/ ULess(db.reported, db.decompressed_size)
            /\ Len(db.data) = db.reported
    /\ Len(db.data) <= db.reported

(***************************************************************************)
(* BinaryReader (main.cc 211-260).  A value of a fixed-width type is the   *)
(* sequence of its bytes in memory; swap_endian (main.cc 198-209) reverses *)
(* it.  Every operation takes the buffer and the cursor and gives the      *)
(* cursor after it, the value read and whether it threw.                   *)
(*                                                                         *)
(* The cursor pos_ and the counts n are size_t.  The guards compute        *)
(* pos_ + n modulo 2^64, so a cursor near 2^64 (seek sets any) or a count  *)
(* near 2^64 passes them with a sum that has wrapped around, and the       *)
(* bytes then read lie outside the buffer, which is undefined: ub says so, *)
(* oob names the places of val that were read outside the buffer (val has  *)
(* 0 there), and the steps that call the operation decide between the      *)
(* outcomes: the process ends, or it goes on with any bytes at those       *)
(* places.                                                                 *)
(***************************************************************************)
swap_endian(u) == [k \in 1..Len(u) |-> u[Len(u) + 1 - k]]

\* pos_ + n > data_.size() of main.cc 219, 236 and 246
reader_overflow(data, pos, n) == ULess(Len(data), pos + n)

\* data_[pos_ .. pos_ + n - 1]
reader_window(data, pos, n) == [k \in 1..n |-> At(data, pos + k - 1)]

\* read_be<T>, sizeof(T) = n
read_be(data, pos, n) ==
  IF reader_overflow(data, pos, n)
  THEN [ok |-> FALSE, err |-> "buffer overflow", val |-> <<>>, pos |-> pos,
        ub |-> FALSE, oob |-> {}]
  ELSE [ok |-> TRUE, err |-> "",
        val |-> swap_endian(reader_window(data, pos, n)),
        pos |-> pos + n, ub |-> pos < 0,
        oob |-> {n + 1 - k : k \in {j \in 1..n : pos + j - 1 < 0}}]

\* The number in the bytes of a value on a little-endian host, below 2^31.
RECURSIVE NumLow(_)
NumLow(v) == IF Len(v) = 0 THEN 0 ELSE v[1] + 256 * NumLow(Tail(v))

\* The number a little-endian host reads in the bytes of a value; a value
\* of four bytes with the top bit set is read as a signed number.
Num(v) ==
  IF Len(v) = 4 /\ v[4] >= 128
  THEN (NumLow([v EXCEPT ![4] = @ - 128]) - INT_MAX) - 1
  ELSE NumLow(v)

\* The bytes of the number x in a type of n bytes on that host.
RECURSIVE Val(_, _)
Val(x, n) == IF n = 0 THEN <<>> ELSE <<x % 256>> \o Val(x \div 256, n - 1)

\* main.cc 229-233: the loop, in front of the character at pos, with the
\* string str of capacity cap built so far.  s += c on a full string
\* allocates room for 2 * cap characters and the terminating zero;
\* data_[pos_++] moves the cursor before s += can throw std::bad_alloc.
RECURSIVE read_string_loop(_, _, _, _, _)
read_string_loop(data, pos, str, cap, mem) ==
  IF ULess(pos, Len(data)) /\ At(data, pos) # 0
  THEN IF Len(str) = cap /\ alloc_fails(2 * cap + 1, 1, mem)
       THEN [ok |-> FALSE, err |-> "bad_alloc", val |-> <<>>,
             pos |-> pos + 1, ub |-> FALSE, oob |-> {}]
       ELSE read_string_loop(data, pos + 1, Append(str, At(data, pos)),
                             IF Len(str) = cap THEN 2 * cap ELSE cap, mem)
  ELSE [ok |-> TRUE, err |-> "", val |-> str, pos |-> pos + 1,
        ub |-> FALSE, oob |-> {}]

\* main.cc 227-234: std::string s holds 15 characters in the object itself
read_string(data, pos, mem) ==
  read_string_loop(data, pos, <<>>, 15, mem)

\* main.cc 236-243.  With a count near 2^64 that passes the guard, the end
\* of the range lies in front of its start; the vector's constructor takes
\* the distance for a size and throws std::length_error.  The vector d is
\* n bytes of its own.
read_bytes(data, pos, n, mem) ==
  IF reader_overflow(data, pos, n)
  THEN [ok |-> FALSE, err |-> "buffer overflow", val |-> <<>>, pos |-> pos,
        ub |-> FALSE, oob |-> {}]
  ELSE IF n < 0
  THEN [ok |-> FALSE, err |-> "length_error", val |-> <<>>, pos |-> pos,
        ub |-> TRUE, oob |-> {}]
  ELSE IF alloc_fails(n, 1, mem)
  THEN [ok |-> FALSE, err |-> "bad_alloc", val |-> <<>>, pos |-> pos,
        ub |-> FALSE, oob |-> {}]
  ELSE [ok |-> TRUE, err |-> "", val |-> reader_window(data, pos, n),
        pos |-> pos + n, ub |-> pos < 0,
        oob |-> {j \in 1..n : pos + j - 1 < 0}]

\* main.cc 245-252.  With a count near 2^64 that passes the guard the span
\* has 2^64 + n bytes; val is the part of it that lies in the buffer.
get_span(data, pos, n) ==
  IF reader_overflow(data, pos, n)
  THEN [ok |-> FALSE, err |-> "buffer overflow", val |-> <<>>, pos |-> pos,
        ub |-> FALSE, oob |-> {}]
  ELSE IF n < 0
  THEN [ok |-> TRUE, err |-> "",
        val |-> reader_window(data, pos, Len(data) - pos),
        pos |-> pos + n, ub |-> TRUE, oob |-> {}]
  ELSE [ok |-> TRUE, err |-> "", val |-> reader_window(data, pos, n),
        pos |-> pos + n, ub |-> pos < 0,
        oob |-> {j \in 1..n : pos + j - 1 < 0}]

\* BinaryReader::align
RECURSIVE reader_align(_, _)
reader_align(pos, alignment) ==
  IF USizeMod(pos, alignment) # 0 THEN reader_align(pos + 1, alignment)
  ELSE pos

(***************************************************************************)
(* A BinaryReader under any sequence of its operations.  The cursors -2    *)
(* and -1 are the size_t 2^64 - 2 and 2^64 - 1, the count -1 is 2^64 - 1.  *)
(***************************************************************************)
RdAlphabet == {0, 65, 66}

RdCursors == -2..(MaxBufLen + 2)

RdCounts == -1..2

RdIdle ==
  [pc |-> "idle", data |-> <<>>, mem |-> -1, pos_ |-> 0, before |-> 0,
   last |-> "", ret |-> <<>>, err |-> "", ops |-> 0]

\* The values a read can return that the operation gives as val: val, and
\* any bytes at the places read outside the buffer.
RdValues(val, oob) ==
  {[k \in 1..Len(val) |-> IF k \in oob THEN f[k] ELSE val[k]] :
     f \in [oob -> RdAlphabet]}

RdNext(name, r, val) ==
  [rd EXCEPT !.pc = IF r.ok THEN "ready" ELSE "thrown",
             !.pos_ = r.pos, !.before = rd.pos_, !.last = name,
             !.ret = val, !.err = r.err, !.ops = @ + 1]

RdApply(name, r) ==
  \E val \in RdValues(r.val, r.oob) :
    rd' \in UbOutcomes(RdNext(name, r, val), r.ub)

RdCanCall == rd.pc = "ready" /\ rd.ops < MaxReaderOps

RdReadString ==
  /\ RdCanCall
  /\ RdApply("read_string", read_string(rd.data, rd.pos_, rd.mem))
  /\ UNCHANGED <<lz, db, pf>>

RdReadBe ==
  /\ RdCanCall
  /\ \E n \in {1, 2, 4, 8} :
       RdApply("read_be", read_be(rd.data, rd.pos_, n))
  /\ UNCHANGED <<lz, db, pf>>

RdReadBytes ==
  /\ RdCanCall
  /\ \E n \in RdCounts :
       RdApply("read_bytes", read_bytes(rd.data, rd.pos_, n, rd.mem))
  /\ UNCHANGED <<lz, db, pf>>

RdGetSpan ==
  /\ RdCanCall
  /\ \E n \in RdCounts : RdApply("get_span", get_span(rd.data, rd.pos_, n))
  /\ UNCHANGED <<lz, db, pf>>

RdAlign ==
  /\ RdCanCall
  /\ \E alignment \in {2, 16} :
       RdApply("align", [ok |-> TRUE, err |-> "", val |-> <<>>,
                         pos |-> reader_align(rd.pos_, alignment),
                         ub |-> FALSE, oob |-> {}])
  /\ UNCHANGED <<lz, db, pf>>

\* main.cc 254: seek(p) sets pos_ to any p, also behind the end of data_
RdSeek ==
  /\ RdCanCall
  /\ \E p \in RdCursors :
       RdApply("seek", [ok |-> TRUE, err |-> "", val |-> <<>>, pos |-> p,
                        ub |-> FALSE, oob |-> {}])
  /\ UNCHANGED <<lz, db, pf>>

\* main.cc 255: tell() returns pos_
RdTell ==
  /\ RdCanCall
  /\ RdApply("tell", [ok |-> TRUE, err |-> "", val |-> <<rd.pos_>>,
                      pos |-> rd.pos_, ub |-> FALSE, oob |-> {}])
  /\ UNCHANGED <<lz, db, pf>>

\* The buffers of up to MaxBufLen bytes and one of 16 characters and a zero,
\* a string too long for the string object itself; an environment that
\* grants every allocation and one that grants 1 byte.
InitReader ==
  /\ \E d \in SeqsUpTo(RdAlphabet, MaxBufLen)
                \cup {[k \in 1..17 |-> IF k = 17 THEN 0 ELSE 65]},
        m \in {-1, 1} :
       rd = [RdIdle EXCEPT !.pc = "ready", !.data = d, !.mem = m]
  /\ lz = 0 /\ db = 0 /\ pf = 0

NextReader ==
  \/ RdReadString \/ RdReadBe \/ RdReadBytes \/ RdGetSpan \/ RdAlign
  \/ RdSeek \/ RdTell

SpecReader == InitReader /\ [][NextReader]_vars

\* The indices at or after pos at which data holds a zero byte.
ZerosFrom(data, pos) ==
  IF pos < 0 THEN {} ELSE {j \in pos..(Len(data) - 1) : At(data, j) = 0}

FirstZero(data, pos) ==
  CHOOSE j \in ZerosFrom(data, pos) : \A k \in ZerosFrom(data, pos) : j <= k

\* C8 as the spec states it: read_string consumes the bytes up to and
\* including the terminating zero byte and returns the bytes before it, it
\* fails when the buffer holds no zero byte at or after the cursor, and
\* after a read operation the cursor is never greater than the buffer size.
\* (A read_string that a refused allocation ended is left aside.)
C8_Original ==
  /\ rd.last = "read_string" /\ rd.err # "bad_alloc" =>
       IF ZerosFrom(rd.data, rd.before) # {}
       THEN /\ rd.pc = "ready"
            /\ rd.pos_ = FirstZero(rd.data, rd.before) + 1
            /\ rd.ret = Slice(rd.data, rd.before,
                              FirstZero(rd.data, rd.before) - rd.before)
       ELSE rd.pc = "thrown"
  /\ rd.last \in {"read_string", "read_be", "read_bytes", "get_span"} =>
       ~ULess(Len(rd.data), rd.pos_)

(***************************************************************************)
(* BinaryWriter (main.cc 262-289) over a std::ofstream.  The stream is a   *)
(* record: good, whether the stream is in a good state; bytes, the bytes   *)
(* handed to it while it was; cap, the number of bytes the file at         *)
(* output_path can take (a file size limit, the room left on the disk),    *)
(* -1 when it takes every byte; lag, how far behind the file the stream's  *)
(* own view runs because it buffers, -1 when it never learns before it is  *)
(* closed.  A stream that is not good ignores every write and answers      *)
(* tellp() by -1.  A write that takes the bytes handed over beyond         *)
(* cap + lag turns the stream bad.  The file holds the first cap of the    *)
(* bytes handed over (ofs_file) once the stream is closed.                 *)
(***************************************************************************)
ofs_write(ofs, bytes) ==
  IF ~ofs.good THEN ofs
  ELSE [ofs EXCEPT !.bytes = @ \o bytes,
                   !.good = \/ ofs.cap = -1
                            \/ ofs.lag = -1
                            \/ Len(ofs.bytes) + Len(bytes)
                                 <= ofs.cap + ofs.lag]

ofs_tellp(ofs) == IF ofs.good THEN Len(ofs.bytes) ELSE -1

\* The bytes in the file when the stream has been closed.
ofs_file(ofs) ==
  IF ofs.cap = -1 \/ Len(ofs.bytes) <= ofs.cap THEN ofs.bytes
  ELSE SubSeq(ofs.bytes, 1, ofs.cap)

write_be(ofs, val) == ofs_write(ofs, swap_endian(val))

write_bytes(ofs, data) == ofs_write(ofs, data)

write_string(ofs, str) == ofs_write(ofs, str \o <<0>>)

\* main.cc 284-285: pad times ofs_.put(0)
RECURSIVE ofs_put_zeros(_, _)
ofs_put_zeros(ofs, pad) ==
  IF pad = 0 THEN ofs ELSE ofs_put_zeros(ofs_write(ofs, <<0>>), pad - 1)

\* pos % alignment is 15 for the pos -1 of a stream that is not good: the
\* -1 is converted to size_t.
writer_align(ofs, alignment) ==
  ofs_put_zeros(ofs, (alignment - USizeMod(ofs_tellp(ofs), alignment))
                       % alignment)

\* tell(): -1 becomes the largest size_t.
writer_tell(ofs) == ofs_tellp(ofs)

(***************************************************************************)
(* process_file (main.cc 308-487).  Fields the code computes with          *)
(* (version, flags, sizes, counts) are numbers, a uint32_t as described    *)
(* under "Machine integers"; the fields of an ArchiveNode, which the code  *)
(* only carries, are values (byte sequences).                              *)
(***************************************************************************)
UnityFS == <<85, 110, 105, 116, 121, 70, 83>>

FLAG_COMPRESSION_MASK == 63
FLAG_BLOCKS_AND_DIR_COMBINED == 64
FLAG_BLOCK_INFO_NEEDS_ALIGNMENT == 512

\* sizeof(ArchiveBlockInfo) and sizeof(ArchiveNode) (main.cc 291-306) on a
\* 64-bit host
sizeof_ArchiveBlockInfo == 12
sizeof_ArchiveNode == 56

\* flags & FLAG_COMPRESSION_MASK: the mask is 2^6 - 1
get_compression(flags) == flags % (FLAG_COMPRESSION_MASK + 1)

HasFlag(flags, bit) == (flags \div bit) % 2 = 1

\* version >= 7 of a uint32_t (main.cc 337, 462, 478)
version_at_least_7(version) == ~ULess(version, 7)

\* get_span(n) for a uint32_t n (main.cc 340, 392): the count is converted
\* to size_t, and one of 2^31 or more is beyond the end of every buffer.
get_span_u32(data, pos, n) ==
  IF n < 0
  THEN [ok |-> FALSE, err |-> "buffer overflow", val |-> <<>>, pos |-> pos,
        ub |-> FALSE, oob |-> {}]
  ELSE get_span(data, pos, n)

\* main.cc 321-338
read_header(raw_file, mem) ==
  LET sig == read_string(raw_file, 0, mem)
      ver == read_be(raw_file, sig.pos, 4)
      uv  == read_string(raw_file, ver.pos, mem)
      ur  == read_string(raw_file, uv.pos, mem)
      bs  == read_be(raw_file, ur.pos, 8)
      cs  == read_be(raw_file, bs.pos, 4)
      us  == read_be(raw_file, cs.pos, 4)
      fl  == read_be(raw_file, us.pos, 4)
      none == [ok |-> FALSE, err |-> "", version |-> 0, unity_ver |-> <<>>,
               unity_rev |-> <<>>, bundle_size |-> <<>>,
               compressed_blocks_info_size |-> 0,
               uncompressed_blocks_info_size |-> 0, flags |-> 0, pos |-> 0]
  IN  IF ~sig.ok THEN [none EXCEPT !.err = sig.err]
      ELSE IF ~ver.ok THEN [none EXCEPT !.err = ver.err]
      ELSE IF ~uv.ok THEN [none EXCEPT !.err = uv.err]
      ELSE IF ~ur.ok THEN [none EXCEPT !.err = ur.err]
      ELSE IF sig.val # UnityFS
      THEN [none EXCEPT !.err = "Only UnityFS format supported"]
      ELSE IF ~bs.ok \/ ~cs.ok \/ ~us.ok \/ ~fl.ok
      THEN [none EXCEPT !.err = "buffer overflow"]
      ELSE [ok |-> TRUE, err |-> "", version |-> Num(ver.val),
            unity_ver |-> uv.val, unity_rev |-> ur.val,
            bundle_size |-> bs.val,
            compressed_blocks_info_size |-> Num(cs.val),
            uncompressed_blocks_info_size |-> Num(us.val),
            flags |-> Num(fl.val),
            pos |-> IF version_at_least_7(Num(ver.val))
                    THEN reader_align(fl.pos, 16)
                    ELSE fl.pos]

\* main.cc 355-359: the blocks still to read, from pos on
RECURSIVE read_blocks_loop(_, _, _, _)
read_blocks_loop(data, pos, count, blocks) ==
  IF count = 0 THEN [ok |-> TRUE, err |-> "", val |-> blocks, pos |-> pos]
  ELSE LET u == read_be(data, pos, 4)
           c == read_be(data, u.pos, 4)
           f == read_be(data, c.pos, 2)
       IN  IF ~u.ok \/ ~c.ok \/ ~f.ok
           THEN [ok |-> FALSE, err |-> "buffer overflow", val |-> blocks,
                 pos |-> pos]
           ELSE read_blocks_loop(data, f.pos, count - 1,
                                 Append(blocks,
                                        [uncompressed_size |-> Num(u.val),
                                         compressed_size |-> Num(c.val),
                                         flags |-> Num(f.val)]))

\* main.cc 354-359: the vector of count blocks is allocated, then filled
read_blocks(data, pos, count, mem) ==
  IF alloc_fails(count, sizeof_ArchiveBlockInfo, mem)
  THEN [ok |-> FALSE, err |-> "bad_alloc", val |-> <<>>, pos |-> pos]
  ELSE read_blocks_loop(data, pos, count, <<>>)

\* main.cc 363-368: the nodes still to read, from pos on
RECURSIVE read_nodes_loop(_, _, _, _, _)
read_nodes_loop(data, pos, count, nodes, mem) ==
  IF count = 0 THEN [ok |-> TRUE, err |-> "", val |-> nodes, pos |-> pos]
  ELSE LET o  == read_be(data, pos, 8)
           sz == read_be(data, o.pos, 8)
           st == read_be(data, sz.pos, 4)
           pa == read_string(data, st.pos, mem)
       IN  IF ~o.ok \/ ~sz.ok \/ ~st.ok
           THEN [ok |-> FALSE, err |-> "buffer overflow", val |-> nodes,
                 pos |-> pos]
           ELSE IF ~pa.ok
           THEN [ok |-> FALSE, err |-> pa.err, val |-> nodes, pos |-> pos]
           ELSE read_nodes_loop(data, pa.pos, count - 1,
                                Append(nodes,
                                       [offset |-> o.val, size |-> sz.val,
                                        status |-> st.val, path |-> pa.val]),
                                mem)

\* main.cc 362-368: the vector of count nodes is allocated, then filled
read_nodes(data, pos, count, mem) ==
  IF alloc_fails(count, sizeof_ArchiveNode, mem)
  THEN [ok |-> FALSE, err |-> "bad_alloc", val |-> <<>>, pos |-> pos]
  ELSE read_nodes_loop(data, pos, count, <<>>, mem)

\* main.cc 349-368: the block table and the file entries of a table blob
read_block_info(block_info_data, mem) ==
  LET hash == read_bytes(block_info_data, 0, 16, mem)
      bc   == read_be(block_info_data, hash.pos, 4)
      bl   == read_blocks(block_info_data, bc.pos, Num(bc.val), mem)
      nc   == read_be(block_info_data, bl.pos, 4)
      nd   == read_nodes(block_info_data, nc.pos, Num(nc.val), mem)
      none == [ok |-> FALSE, err |-> "buffer overflow", blocks |-> <<>>,
               nodes |-> <<>>]
  IN  IF ~hash.ok THEN [none EXCEPT !.err = hash.err]
      ELSE IF ~bc.ok THEN none
      ELSE IF ~bl.ok THEN [none EXCEPT !.err = bl.err]
      ELSE IF ~nc.ok THEN none
      ELSE IF ~nd.ok THEN [none EXCEPT !.err = nd.err]
      ELSE [ok |-> TRUE, err |-> "", blocks |-> bl.val, nodes |-> nd.val]

\* new_block_info_blob is a record: the bytes data it holds, its capacity
\* cap, and thrown, whether an insert into it was not granted.

\* main.cc 430-433 (and the insert of 418, 423, 428)
push_bytes(blob, d, mem) ==
  IF blob.thrown THEN blob ELSE vector_insert(blob.data, blob.cap, d, 1, mem)

\* main.cc 415-419 (and 420-429): v = swap_endian(v), then v's bytes
push_be(blob, val, mem) == push_bytes(blob, swap_endian(val), mem)

\* main.cc 439-443
RECURSIVE push_blocks(_, _, _)
push_blocks(blob, new_blocks, mem) ==
  IF Len(new_blocks) = 0 THEN blob
  ELSE push_blocks(
         push_be(push_be(push_be(blob,
                                 Val(Head(new_blocks).uncompressed_size, 4),
                                 mem),
                         Val(Head(new_blocks).compressed_size, 4), mem),
                 Val(Head(new_blocks).flags, 2), mem),
         Tail(new_blocks), mem)

\* A node written without its path's terminating zero byte.
push_node_unterminated(blob, n, mem) ==
  push_bytes(push_be(push_be(push_be(blob, n.offset, mem), n.size, mem),
                     n.status, mem),
             n.path, mem)

\* main.cc 447-450
push_node(blob, n, mem) ==
  push_bytes(push_be(push_be(push_be(blob, n.offset, mem), n.size, mem),
                     n.status, mem),
             n.path \o <<0>>, mem)

RECURSIVE push_nodes(_, _, _)
push_nodes(blob, nodes, mem) ==
  IF Len(nodes) = 0 THEN blob
  ELSE push_nodes(push_node(blob, Head(nodes), mem), Tail(nodes), mem)

\* main.cc 413-451
new_block_info(new_blocks, nodes, mem) ==
  push_nodes(
    push_be(push_blocks(push_be(push_bytes([thrown |-> FALSE, data |-> <<>>,
                                            cap |-> 0],
                                           Zeros(16), mem),
                                Val(Len(new_blocks), 4), mem),
                        new_blocks, mem),
            Val(Len(nodes), 4), mem),
    nodes, mem)

\* A header size that is never rounded up.
header_end_unrounded(header_min_size, version) == header_min_size

\* main.cc 460-465
header_end(header_min_size, version) ==
  IF version_at_least_7(version) /\ header_min_size % 16 # 0
  THEN header_min_size + (16 - (header_min_size % 16))
  ELSE header_min_size

\* main.cc 401-404
new_block(old_blk, raw) ==
  [uncompressed_size |-> Len(raw), compressed_size |-> Len(raw), flags |-> 0]

\* A payload that grows at its front.
insert_front(all_decompressed_data, cap, raw, mem) ==
  [vector_insert(all_decompressed_data, cap, raw, 1, mem)
     EXCEPT !.data = IF @ = all_decompressed_data THEN @
                     ELSE raw \o all_decompressed_data]

\* main.cc 398-399: all_decompressed_data.insert(end(), raw.begin(),
\* raw.end()) on the vector that holds all_decompressed_data in a capacity
\* of cap
insert_end(all_decompressed_data, cap, raw, mem) ==
  vector_insert(all_decompressed_data, cap, raw, 1, mem)

\* An exception leaves process_file (main.cc 542-545 catches it).
throw(p, msg) == [p EXCEPT !.pc = "error", !.err = msg]

\* A loop that goes on to the next block when one fails to decompress.
block_skipped(p, msg) == [p EXCEPT !.i = @ + 1]

\* main.cc 393-395: decompress_block throws inside the loop
block_failed(p, msg) == throw(p, msg)

CodecErrors ==
  {"Invalid LZMA data", "LZMA Decomp failed", "LZ4 Decomp failed",
   "LZHAM Decomp failed", "LZ4AK decompression failed",
   "Unknown compression type", "length_error"}

\* input says what is at input_path: "file" (a file with the bytes
\* raw_file), "missing" (nothing), "unopenable" (a file that exists and
\* that the process may not open) or "directory"; mem is the largest
\* allocation granted; all_capacity is the capacity of the vector
\* all_decompressed_data; writable, cap and lag describe the file at
\* output_path (see BinaryWriter).  opened and good are the state of the
\* stream ofs, out the bytes handed to it while it was good, file the bytes
\* in the file at output_path once process_file has returned.
PfIdle ==
  [pc |-> "idle", input |-> "file", raw_file |-> <<>>,
   game_mode |-> "Standard", mem |-> -1, pos |-> 0,
   version |-> 0, unity_ver |-> <<>>, unity_rev |-> <<>>, flags |-> 0,
   compressed_blocks_info_size |-> 0, uncompressed_blocks_info_size |-> 0,
   blocks |-> <<>>, nodes |-> <<>>, writable |-> TRUE, cap |-> -1,
   lag |-> 0, opened |-> FALSE, good |-> FALSE,
   i |-> 0,
   all_decompressed_data |-> <<>>, all_capacity |-> 0, new_blocks |-> <<>>,
   new_block_info_blob |-> <<>>, total_file_size |-> 0, out |-> <<>>,
   file |-> <<>>, err |-> "",
   \* the model's own record of the run
   data_start |-> 0, results |-> <<>>, failed |-> -1, table_failed |-> FALSE,
   size_field_at |-> -1, ub |-> FALSE]

\* The stream ofs of the state p
ofs_of(p) == [good |-> p.good, bytes |-> p.out, cap |-> p.cap, lag |-> p.lag]

\* The outcomes of a step that would lead to the state next
PfOutcomes(next) == UbOutcomes(next, next.ub)

\* main.cc 310-319: the input file is read into raw_file.  Of a stream
\* that did not open tellg() is -1, the largest size_t as file_size, and
\* the constructor of raw_file throws std::length_error.  A directory
\* opens, tellg() is 2^63 - 1 there, a size within max_size() that no
\* environment grants: std::bad_alloc.
PfOpenInput ==
  /\ pf.pc = "start"
  /\ pf' = IF pf.input = "missing" THEN throw(pf, "Input file not found")
           ELSE IF pf.input = "unopenable" THEN throw(pf, "length_error")
           ELSE IF pf.input = "directory" THEN throw(pf, "bad_alloc")
           ELSE IF alloc_fails(Len(pf.raw_file), 1, pf.mem)
           THEN throw(pf, "bad_alloc")
           ELSE [pf EXCEPT !.pc = "header"]
  /\ UNCHANGED <<lz, db, rd>>

\* main.cc 321-338
PfReadHeader ==
  /\ pf.pc = "header"
  /\ LET h == read_header(pf.raw_file, pf.mem)
     IN  pf' = IF ~h.ok THEN throw(pf, h.err)
               ELSE [pf EXCEPT
                       !.pc = "table", !.pos = h.pos, !.version = h.version,
                       !.unity_ver = h.unity_ver, !.unity_rev = h.unity_rev,
                       !.flags = h.flags,
                       !.compressed_blocks_info_size =
                          h.compressed_blocks_info_size,
                       !.uncompressed_blocks_info_size =
                          h.uncompressed_blocks_info_size]
  /\ UNCHANGED <<lz, db, rd>>

\* main.cc 349-368: the table blob is parsed; pos is the reader's position
\* behind the stored table
table_parsed(p, pos, t) ==
  IF ~t.ok THEN throw(p, t.err)
  ELSE [p EXCEPT !.pc = "open", !.pos = pos, !.blocks = t.blocks,
                 !.nodes = t.nodes]

\* main.cc 345-368, given the outcome r of decompress_block
table_decompressed(p, pos, r) ==
  IF ~r.ok THEN [throw(p, r.err) EXCEPT !.table_failed = TRUE, !.ub = r.ub]
  ELSE table_parsed([p EXCEPT !.ub = r.ub], pos,
                    read_block_info(r.data, p.mem))

\* main.cc 340-347, given the span of the stored table
table_span(p, span, o) ==
  IF ~span.ok THEN throw(p, "buffer overflow")
  ELSE table_decompressed(
         p, span.pos,
         decompress_block(get_compression(p.flags), span.val,
                          p.uncompressed_blocks_info_size, "Standard", o))

\* The outcomes the codec of a span can have.
SpanOracles(span, type, size, mode, mem) ==
  IF span.ok THEN OraclesFor(type, span.val, size, mode, mem)
  ELSE {[ok |-> FALSE, n |-> 0, mem |-> mem]}

\* main.cc 340-368
PfReadTable ==
  /\ pf.pc = "table"
  /\ \E o \in SpanOracles(get_span_u32(pf.raw_file, pf.pos,
                                       pf.compressed_blocks_info_size),
                          get_compression(pf.flags),
                          pf.uncompressed_blocks_info_size, "Standard",
                          pf.mem) :
       pf' \in PfOutcomes(
                 table_span(pf, get_span_u32(pf.raw_file, pf.pos,
                                             pf.compressed_blocks_info_size),
                            o))
  /\ UNCHANGED <<lz, db, rd>>

\* main.cc 370-388: the output file is opened, the reader is aligned.  The
\* code does not ask whether the file is open.
PfOpenOutput ==
  /\ pf.pc = "open"
  /\ LET pos == IF HasFlag(pf.flags, FLAG_BLOCK_INFO_NEEDS_ALIGNMENT)
                THEN reader_align(pf.pos, 16) ELSE pf.pos
     IN  pf' = [pf EXCEPT !.pc = "blocks", !.opened = pf.writable,
                          !.good = pf.writable, !.pos = pos,
                          !.data_start = pos, !.i = 0]
  /\ UNCHANGED <<lz, db, rd>>

\* main.cc 397-405, given the vector raw that decompress_block returned:
\* the insert of main.cc 398 throws, or the push_back of main.cc 405 does,
\* or the block is appended
block_appended(p, old_blk, raw) ==
  LET v == insert_end(p.all_decompressed_data, p.all_capacity, raw, p.mem)
  IN  IF v.thrown THEN throw(p, "bad_alloc")
      ELSE IF push_back_fails(Len(p.new_blocks), sizeof_ArchiveBlockInfo,
                              p.mem)
      THEN throw([p EXCEPT !.all_decompressed_data = v.data,
                           !.all_capacity = v.cap],
                 "bad_alloc")
      ELSE [p EXCEPT !.i = @ + 1,
                     !.all_decompressed_data = v.data,
                     !.all_capacity = v.cap,
                     !.new_blocks = Append(@, new_block(old_blk, raw)),
                     !.results = Append(@, raw)]

\* main.cc 393-405, given the outcome r of decompress_block
block_decompressed(p, old_blk, r) ==
  IF ~r.ok THEN block_failed([p EXCEPT !.failed = p.i, !.ub = r.ub], r.err)
  ELSE block_appended([p EXCEPT !.ub = r.ub], old_blk, r.data)

\* main.cc 391-395, given the span of the block
block_span(p, old_blk, span, o) ==
  IF ~span.ok THEN throw(p, "buffer overflow")
  ELSE block_decompressed(
         [p EXCEPT !.pos = span.pos], old_blk,
         decompress_block(get_compression(old_blk.flags), span.val,
                          old_blk.uncompressed_size, p.game_mode, o))

\* main.cc 389-410, one iteration
PfDecompressBlock ==
  /\ pf.pc = "blocks"
  /\ pf.i < Len(pf.blocks)
  /\ \E o \in SpanOracles(get_span_u32(pf.raw_file, pf.pos,
                                       pf.blocks[pf.i + 1].compressed_size),
                          get_compression(pf.blocks[pf.i + 1].flags),
                          pf.blocks[pf.i + 1].uncompressed_size,
                          pf.game_mode, pf.mem) :
       pf' \in PfOutcomes(
                 block_span(pf, pf.blocks[pf.i + 1],
                            get_span_u32(pf.raw_file, pf.pos,
                                         pf.blocks[pf.i + 1].compressed_size),
                            o))
  /\ UNCHANGED <<lz, db, rd>>

\* main.cc 413-451
PfSynthesize ==
  /\ pf.pc = "blocks"
  /\ pf.i >= Len(pf.blocks)
  /\ pf' = IF new_block_info(pf.new_blocks, pf.nodes, pf.mem).thrown
           THEN throw(pf, "bad_alloc")
           ELSE [pf EXCEPT !.pc = "write_header",
                           !.new_block_info_blob =
                              new_block_info(pf.new_blocks, pf.nodes,
                                             pf.mem).data]
  /\ UNCHANGED <<lz, db, rd>>

\* main.cc 453-479
PfWriteHeader ==
  /\ pf.pc = "write_header"
  /\ LET o1 == write_string(
                 write_string(
                   write_be(write_string(ofs_of(pf), UnityFS),
                            Val(pf.version, 4)),
                   pf.unity_ver),
                 pf.unity_rev)
         header_min_size == writer_tell(o1) + 8 + 4 + 4 + 4
         header_end_pos_approx == header_end(header_min_size, pf.version)
         total == header_end_pos_approx + Len(pf.new_block_info_blob)
                    + Len(pf.all_decompressed_data)
         o2 == write_be(
                 write_be(
                   write_be(write_be(o1, Val(total, 8)),
                            Val(Len(pf.new_block_info_blob), 4)),
                   Val(Len(pf.new_block_info_blob), 4)),
                 Val(FLAG_BLOCKS_AND_DIR_COMBINED, 4))
         o3 == IF version_at_least_7(pf.version) THEN writer_align(o2, 16)
               ELSE o2
     IN  pf' = [pf EXCEPT !.pc = "write_table", !.total_file_size = total,
                          !.size_field_at =
                             IF o1.good THEN Len(o1.bytes) ELSE -1,
                          !.good = o3.good,
                          !.out = o3.bytes]
  /\ UNCHANGED <<lz, db, rd>>

\* main.cc 481
PfWriteTable ==
  /\ pf.pc = "write_table"
  /\ pf' = [pf EXCEPT
              !.pc = "write_payload",
              !.good = write_bytes(ofs_of(pf), pf.new_block_info_blob).good,
              !.out = write_bytes(ofs_of(pf), pf.new_block_info_blob).bytes]
  /\ UNCHANGED <<lz, db, rd>>

\* main.cc 483-487: the payload is written, and the stream closed on the
\* way out
PfWritePayload ==
  /\ pf.pc = "write_payload"
  /\ pf' = [pf EXCEPT
              !.pc = "done",
              !.good = write_bytes(ofs_of(pf), pf.all_decompressed_data).good,
              !.out = write_bytes(ofs_of(pf), pf.all_decompressed_data).bytes,
              !.file = ofs_file(write_bytes(ofs_of(pf),
                                            pf.all_decompressed_data))]
  /\ UNCHANGED <<lz, db, rd>>

(***************************************************************************)
(* The input files of the model: bundles built from a header, a list of    *)
(* blocks and a list of file entries, and damaged copies of one of them.   *)
(***************************************************************************)
BE(x, n) == swap_endian(Val(x, n))

\* The bytes of a literal-only LZ4 block that decodes to data.
RECURSIVE Lz4RunLength(_)
Lz4RunLength(n) == IF n >= 255 THEN <<255>> \o Lz4RunLength(n - 255) ELSE <<n>>

Lz4Stored(data) ==
  IF Len(data) < 15 THEN <<16 * Len(data)>> \o data
  ELSE <<240>> \o Lz4RunLength(Len(data) - 15) \o data

\* The kinds of block: the flags and the declared size of the descriptor,
\* and the bytes stored for the block.  The declared size -1 is the
\* uint32_t 4294967295.
BlockKinds ==
  { [flags |-> 64, uncompressed_size |-> 2, bytes |-> <<65, 66>>],
    [flags |-> 2,  uncompressed_size |-> 1, bytes |-> <<16, 67>>],
    [flags |-> 3,  uncompressed_size |-> 3, bytes |-> <<16, 68>>],
    [flags |-> 4,  uncompressed_size |-> 2, bytes |-> <<2, 69, 70>>],
    [flags |-> 2,  uncompressed_size |-> 1, bytes |-> <<255>>],
    [flags |-> 2,  uncompressed_size |-> -1, bytes |-> <<16, 71>>],
    [flags |-> 1,  uncompressed_size |-> 1, bytes |-> <<93, 0, 0>>] }

FxNode(k) ==
  [offset |-> <<k, 0, 0, 0, 0, 0, 0, 128 + k>>, size |-> Val(100 + k, 8),
   status |-> Val(k, 4),
   path |-> IF k = 2 THEN <<>> ELSE <<96 + k, 46, 98>>]

FxNodes(n) == [k \in 1..n |-> FxNode(k)]

RECURSIVE FxBlockTable(_)
FxBlockTable(kinds) ==
  IF Len(kinds) = 0 THEN <<>>
  ELSE BE(Head(kinds).uncompressed_size, 4)
         \o BE(Len(Head(kinds).bytes), 4)
         \o BE(Head(kinds).flags, 2) \o FxBlockTable(Tail(kinds))

RECURSIVE FxNodeTable(_)
FxNodeTable(nodes) ==
  IF Len(nodes) = 0 THEN <<>>
  ELSE LET n == Head(nodes)
       IN  swap_endian(n.offset) \o swap_endian(n.size)
             \o swap_endian(n.status) \o n.path \o <<0>>
             \o FxNodeTable(Tail(nodes))

RECURSIVE FxPayload(_)
FxPayload(kinds) ==
  IF Len(kinds) = 0 THEN <<>>
  ELSE Head(kinds).bytes \o FxPayload(Tail(kinds))

\* A table that declares blocks_count blocks and nodes_count nodes
FxTableOf(kinds, nodes, blocks_count, nodes_count) ==
  Zeros(16) \o BE(blocks_count, 4) \o FxBlockTable(kinds)
    \o BE(nodes_count, 4) \o FxNodeTable(nodes)

\* The ways a header stores the table: as it is, as it is with the
\* alignment flag set, as an LZ4 block, as it is without the zero byte
\* that ends the last path, as an LZ4 block that does not decode, and as
\* it is with a count of 2^31 - 1 blocks or of 2^32 - 1 nodes.
TableForms ==
  {"plain", "aligned", "lz4", "open_path", "bad_lz4", "many_blocks",
   "many_nodes"}

FxTable(form, kinds, nodes) ==
  FxTableOf(kinds, nodes,
            IF form = "many_blocks" THEN INT_MAX ELSE Len(kinds),
            IF form = "many_nodes" THEN -1 ELSE Len(nodes))

FxStoredTable(form, table) ==
  CASE form = "lz4" -> Lz4Stored(table)
    [] form = "bad_lz4" -> <<255>> \o table
    [] form = "open_path" -> SubSeq(table, 1, Len(table) - 1)
    [] OTHER -> table

FxFlags(form) ==
  CASE form = "lz4" -> 2 + FLAG_BLOCKS_AND_DIR_COMBINED
    [] form = "bad_lz4" -> 3
    [] form = "aligned" -> FLAG_BLOCK_INFO_NEEDS_ALIGNMENT
    [] OTHER -> 0

FxPad(bytes, on) ==
  IF on THEN bytes \o Zeros((16 - (Len(bytes) % 16)) % 16) ELSE bytes

\* The two version strings of most headers: "5.x" and "r".  The header up
\* to and including the flags field is then 38 bytes long.
FxPlainStrings == <<(<<53, 46, 120>>), (<<114>>)>>

\* A string of n characters "x"
FxString(n) == [k \in 1..n |-> 120]

\* The pairs of version strings tried: they give headers of 38, 34, 48 (a
\* multiple of 16), 49 and 54 bytes; the strings of 20 characters do not
\* fit into the string object.
FxVersionStrings ==
  { FxPlainStrings, <<(<<>>), (<<>>)>>, <<FxString(9), FxString(5)>>,
    <<FxString(9), FxString(6)>>, <<FxString(20), (<<>>)>>,
    <<(<<>>), FxString(20)>> }

\* strs are the two version strings of the header
FxBundle(version, strs, form, kinds, nodes) ==
  LET table  == FxTable(form, kinds, nodes)
      stored == FxStoredTable(form, table)
      head   == UnityFS \o <<0>> \o BE(version, 4) \o strs[1] \o <<0>>
                  \o strs[2] \o <<0>> \o BE(0, 8) \o BE(Len(stored), 4)
                  \o BE(Len(table), 4) \o BE(FxFlags(form), 4)
  IN  FxPad(FxPad(head, version >= 7) \o stored, form = "aligned")
        \o FxPayload(kinds)

\* One bundle cut short at every length, and with a wrong signature.
FxBase == FxBundle(7, FxPlainStrings, "plain",
                   <<CHOOSE k \in BlockKinds : k.flags = 64>>, FxNodes(1))

FxDamaged ==
  {SubSeq(FxBase, 1, n) : n \in 0..(Len(FxBase) - 1)}
    \cup {[FxBase EXCEPT ![6] = 88]}

\* The environment in which nothing fails: the input is a file, every
\* allocation is granted, the output file opens and takes every byte.
PfPlainEnv ==
  [input |-> "file", mem |-> -1, writable |-> TRUE, cap |-> -1, lag |-> 0]

\* The environments in which something fails: an output file that cannot
\* be opened, one that takes no byte, one that takes 60 bytes with a stream
\* that learns of it at once or not before it is closed, allocations of at
\* most 1000 bytes, and an input that is missing, that does not open, or
\* that is a directory.
PfFailingEnvs ==
  { [PfPlainEnv EXCEPT !.writable = FALSE],
    [PfPlainEnv EXCEPT !.cap = 0],
    [PfPlainEnv EXCEPT !.cap = 60],
    [PfPlainEnv EXCEPT !.cap = 60, !.lag = -1],
    [PfPlainEnv EXCEPT !.mem = 1000],
    [PfPlainEnv EXCEPT !.input = "missing"],
    [PfPlainEnv EXCEPT !.input = "unopenable"],
    [PfPlainEnv EXCEPT !.input = "directory"] }

\* The bundles tried in the failing environments.
FxEnvBundles ==
  {FxBundle(7, FxPlainStrings, f, k, FxNodes(MaxNodes)) :
     f \in {"plain", "many_blocks", "many_nodes"},
     k \in SeqsUpTo(BlockKinds, MaxBlocks)}

\* An LZ4 block of 11 bytes that decodes to 200: the literal "A", a match
\* of 194 bytes at distance 1, five literals.
Lz4Expanding ==
  [flags |-> 2, uncompressed_size |-> 200,
   bytes |-> <<31, 65, 1, 0, 175, 80, 66, 67, 68, 69, 70>>]

\* Bundles and allocation limits under which the file is read and a later
\* allocation is not granted: a version string of 61 characters (the
\* string asks for 121 bytes), two blocks of 200 bytes (the payload asks
\* for 400), and two file entries whose table asks for 122 bytes; and the
\* last bundle, of 100 bytes, under a limit of 50.
FxTightCalls ==
  { [raw_file |-> FxBundle(6, <<FxString(61), (<<>>)>>, "plain", <<>>, <<>>),
     mem |-> 120],
    [raw_file |-> FxBundle(6, FxPlainStrings, "plain",
                           <<Lz4Expanding, Lz4Expanding>>, <<>>),
     mem |-> 300],
    [raw_file |-> FxBundle(6, <<(<<>>), (<<>>)>>, "plain", <<>>,
                           <<FxNode(2), FxNode(2)>>),
     mem |-> 115],
    [raw_file |-> FxBundle(6, <<(<<>>), (<<>>)>>, "plain", <<>>,
                           <<FxNode(2), FxNode(2)>>),
     mem |-> 50] }

\* A call of process_file: the bytes of the input file, the game mode and
\* the environment.
PfCall(raw_file, game_mode, env) ==
  [PfIdle EXCEPT !.pc = "start", !.raw_file = raw_file,
                 !.game_mode = game_mode, !.input = env.input,
                 !.mem = env.mem, !.writable = env.writable,
                 !.cap = env.cap, !.lag = env.lag]

\* The calls of process_file: every bundle of up to MaxBlocks blocks and
\* MaxNodes file entries in every form of table, bundles with each pair of
\* version strings, the damaged files, the failing environments and the
\* tight allocation limits (and the same bundles without a limit).
InitFile ==
  /\ \E m \in GameModes :
       \/ \E v \in {6, 7}, f \in TableForms, n \in 0..MaxNodes,
             k \in SeqsUpTo(BlockKinds, MaxBlocks) :
            pf = PfCall(FxBundle(v, FxPlainStrings, f, k, FxNodes(n)), m,
                        PfPlainEnv)
       \/ \E v \in {6, 7}, s \in FxVersionStrings, f \in {"plain", "lz4"},
             k \in SeqsUpTo(BlockKinds, 1) :
            pf = PfCall(FxBundle(v, s, f, k, FxNodes(1)), m, PfPlainEnv)
       \/ \E f \in FxDamaged : pf = PfCall(f, m, PfPlainEnv)
       \/ \E e \in PfFailingEnvs, f \in FxEnvBundles : pf = PfCall(f, m, e)
       \/ \E c \in FxTightCalls, a \in {0, 1} :
            pf = PfCall(c.raw_file, m,
                        [PfPlainEnv EXCEPT !.mem = IF a = 0 THEN c.mem
                                                   ELSE -1])
  /\ lz = 0 /\ db = 0 /\ rd = 0

NextFile ==
  \/ PfOpenInput \/ PfReadHeader \/ PfReadTable \/ PfOpenOutput
  \/ PfDecompressBlock \/ PfSynthesize \/ PfWriteHeader \/ PfWriteTable
  \/ PfWritePayload

SpecFile == InitFile /\ [][NextFile]_vars

(***************************************************************************)
(* Properties of decompress_lzak and read_extra_length.                    *)
(***************************************************************************)
\* The number of bytes equal to 0xFF that data holds from index c on.
RECURSIVE FFRun(_, _)
FFRun(data, c) ==
  IF c < Len(data) /\ At(data, c) = 255 THEN 1 + FFRun(data, c + 1) ELSE 0

\* data holds, from index c on, a run of k bytes 0xFF and then a terminal
\* byte t.
Terminated(data, c) == c + FFRun(data, c) < Len(data)

ExtValue(data, c) == 255 * FFRun(data, c) + At(data, c + FFRun(data, c))

LzIterated == lz.pc # "idle" /\ lz.s.iters > 0

\* The iteration just run read a literal-length extension that the buffer
\* holds whole.
LzLiteralExtended ==
  /\ LzIterated
  /\ At(lz.compressed_data, lz.s.token_at) % 16 = 15
  /\ Terminated(lz.compressed_data, lz.s.token_at + 1)

\* The iteration just run read a match-length extension that the buffer
\* holds whole.
LzMatchExtended ==
  /\ LzIterated
  /\ lz.s.current_match_len # -1
  /\ At(lz.compressed_data, lz.s.token_at) \div 16 = 15
  /\ Terminated(lz.compressed_data, lz.s.literal_end + 2)

\* The scenario of the spec: literal nibble 0x0F, then 0xFF 0xFF 0x05.
LzScenario ==
  /\ LzIterated
  /\ At(lz.compressed_data, lz.s.token_at) % 16 = 15
  /\ lz.s.token_at + 4 <= Len(lz.compressed_data)
  /\ Slice(lz.compressed_data, lz.s.token_at + 1, 3) = <<255, 255, 5>>

LzExpected(input, tokens, dists, i) ==
  IF i \in tokens THEN NibbleSwap(At(input, i))
  ELSE IF i \in dists THEN At(input, i + 1)
  ELSE IF (i - 1) \in dists THEN At(input, i - 1)
  ELSE At(input, i)

\* C9: the buffer of the pre-transform, once the function has made it, has
\* the length of the input and differs from it only in the token bytes
\* visited (nibbles transposed) and the distance pairs visited (bytes
\* exchanged); every byte at or after the read cursor, and so every byte
\* behind the place the loop stopped at, is the input's; and the caller's
\* buffer holds the bytes the caller passed, at every point of the call.
C9_RewriteFrame ==
  /\ lz.compressed_data = lz.given
  /\ lz.pc # "call" => lz.s.compressed_data = lz.given
  /\ lz.pc \in {"loop", "returned", "thrown"} /\ Len(lz.given) > 0
       /\ ~lz.s.thrown =>
    LET fd == lz.s.fixed_data
        n  == Len(lz.given)
    IN  /\ Len(fd) = n
        /\ \A i \in 0..(n - 1) :
             At(fd, i) = LzExpected(lz.given, lz.s.tokens, lz.s.dists, i)
        /\ \A i \in 0..(n - 1) :
             ~ULess(i, lz.s.ip) => At(fd, i) = At(lz.given, i)
        /\ \A i \in lz.s.tokens : ULess(i, lz.s.ip) /\ i \notin lz.s.dists
                                   /\ (i - 1) \notin lz.s.dists
        /\ \A i \in lz.s.dists : ULess(i + 1, lz.s.ip)
                                  /\ (i + 1) \notin lz.s.dists

\* C9 witness: the loop has ended on a buffer in which it rewrote two tokens
\* and a distance pair and passed over literal bytes.
C9_Witness ==
  /\ lz.pc = "returned"
  /\ Cardinality(lz.s.tokens) >= 2
  /\ lz.s.dists # {}
  /\ lz.s.fixed_data # lz.given
  /\ lz.compressed_data = lz.given
  /\ Len(lz.out) = 13

\* C10: the rewrite loop uses no index outside the buffer, its read cursor
\* grows in every iteration, it runs at most buffer-length iterations, and
\* the only error decompress_lzak reports is the decoder's negative status.
C10_LoopSafe ==
  /\ \A i \in lz.s.acc : i >= 0 /\ i < Len(lz.compressed_data)
  /\ LzIterated => ULess(lz.prev_ip, lz.s.ip)
  /\ lz.s.iters <= Len(lz.compressed_data)
  /\ lz.pc = "thrown" => lz.err = "LZ4AK decompression failed"

(***************************************************************************)
(* Properties of process_file.  The written file is read back with the     *)
(* reader of the program: its header, its table and the bytes behind them. *)
(***************************************************************************)
\* A successful conversion: process_file has returned, and the output sink
\* has worked: the file could be opened, the stream is good, and the file
\* has taken every byte handed to the stream.
Converted ==
  pf.pc = "done" /\ pf.opened /\ pf.good /\ pf.file = pf.out

OutTableOf(h) ==
  read_block_info(Slice(pf.file, h.pos, h.compressed_blocks_info_size), -1)

OutTable == OutTableOf(read_header(pf.file, -1))

OutPayloadOf(h) ==
  Slice(pf.file, h.pos + h.compressed_blocks_info_size,
        Len(pf.file) - (h.pos + h.compressed_blocks_info_size))

OutPayload == OutPayloadOf(read_header(pf.file, -1))

RECURSIVE Concat(_)
Concat(seqs) == IF Len(seqs) = 0 THEN <<>> ELSE Head(seqs) \o Concat(Tail(seqs))

RECURSIVE SumSizes(_)
SumSizes(blocks) ==
  IF Len(blocks) = 0 THEN 0
  ELSE Head(blocks).uncompressed_size + SumSizes(Tail(blocks))

RECURSIVE SumStored(_, _)
SumStored(blocks, n) ==
  IF n = 0 THEN 0
  ELSE blocks[n].compressed_size + SumStored(blocks, n - 1)

C1_PerBlock(t) ==
  /\ t.ok
  /\ Len(t.blocks) = Len(pf.blocks)
  /\ \A j \in 1..Len(t.blocks) :
       /\ t.blocks[j].uncompressed_size = Len(pf.results[j])
       /\ t.blocks[j].compressed_size = Len(pf.results[j])
       /\ t.blocks[j].flags = 0
  /\ SumSizes(t.blocks) = Len(pf.all_decompressed_data)

\* What process_file writes (main.cc 401-405, 438-443): after a successful
\* conversion of a bundle of N >= 0 blocks the written block table holds N
\* descriptors, one per input block in table order; the j-th has
\* uncompressed size = compressed size = the length of the j-th block's
\* decompressed result and flags 0, and the sizes add up to the length of
\* the concatenated payload.
BlockPerBlock == Converted => C1_PerBlock(OutTable)

\* A bundle of two blocks of different lengths has been converted.
TwoBlocksConverted ==
  /\ Converted
  /\ Len(pf.blocks) = 2
  /\ Len(OutTable.blocks) = 2
  /\ Len(pf.results[1]) # Len(pf.results[2])
  /\ pf.blocks[1].flags # 0

C1_Single(t) ==
  /\ t.ok
  /\ Len(t.blocks) = 1
  /\ t.blocks[1].uncompressed_size = Len(pf.all_decompressed_data)
  /\ t.blocks[1].compressed_size = Len(pf.all_decompressed_data)
  /\ t.blocks[1].flags = 0

\* C1: after a successful conversion, whatever the number of input blocks,
\* the written block table holds exactly one descriptor, with both sizes
\* equal to the length of the whole payload and flags 0.
C1_Original == Converted => C1_Single(OutTable)

C2_SameNodes(t) ==
  /\ t.ok
  /\ Len(t.nodes) = Len(pf.nodes)
  /\ \A j \in 1..Len(t.nodes) :
       /\ t.nodes[j].offset = pf.nodes[j].offset
       /\ t.nodes[j].size = pf.nodes[j].size
       /\ t.nodes[j].status = pf.nodes[j].status
       /\ t.nodes[j].path = pf.nodes[j].path

\* C2: after a successful conversion the written table holds as many file
\* entries as the table read from the input, in the same order, and the
\* j-th written entry has the offset, size, status and path of the j-th
\* entry read.
C2_NodesPreserved == Converted => C2_SameNodes(OutTable)

C2_Witness ==
  /\ Converted
  /\ Len(pf.nodes) = 2
  /\ Len(OutTable.nodes) = 2
  /\ OutTable.nodes[1].path # OutTable.nodes[2].path
  /\ Num(OutTable.nodes[2].status) = 2

\* The length of the header up to and including the flags field.
HeaderLength == pf.size_field_at + 8 + 4 + 4 + 4

\* A version 7 header whose length is a multiple of 16 already was written
\* and nothing was added to it.
AlignedHeaderWritten ==
  /\ Converted
  /\ pf.version >= 7
  /\ HeaderLength = 48
  /\ Len(pf.file) = 48 + Len(pf.new_block_info_blob)
                      + Len(pf.all_decompressed_data)

RoundedHeaderLength ==
  IF pf.version >= 7 THEN ((HeaderLength + 15) \div 16) * 16
  ELSE HeaderLength

SizeField == Num(swap_endian(Slice(pf.out, pf.size_field_at, 8)))

\* The header fields in front of the total-size field.
HeaderHead ==
  UnityFS \o <<0>> \o swap_endian(Val(pf.version, 4)) \o pf.unity_ver
    \o <<0>> \o pf.unity_rev \o <<0>>

\* C4: once the total-size field is written it holds the length of the
\* header up to and including the flags field (rounded up to a multiple of
\* 16 when version >= 7, as it is otherwise) plus the length of the new
\* table plus the length of the payload; nothing of the table or the
\* payload is written before the field is; and after a successful
\* conversion the field equals the number of bytes in the written file.
C4_TotalSize ==
  /\ pf.pc \notin {"write_table", "write_payload", "done"} =>
       pf.out = <<>> /\ pf.size_field_at = -1
  /\ pf.size_field_at = -1 =>
       /\ Len(pf.out) <= Len(HeaderHead)
       /\ pf.out = SubSeq(HeaderHead, 1, Len(pf.out))
  /\ pf.size_field_at # -1 =>
       /\ pf.size_field_at = Len(HeaderHead)
       /\ Len(pf.out) >= pf.size_field_at + 8
       /\ SizeField = RoundedHeaderLength + Len(pf.new_block_info_blob)
                        + Len(pf.all_decompressed_data)
       /\ pf.pc = "write_table" /\ pf.good =>
            Len(pf.out) = RoundedHeaderLength
  /\ Converted => SizeField = Len(pf.file)

\* C4 witness: a version 7 header of 49 bytes, one more than a multiple of
\* 16, was rounded up to 64, and table and payload were written behind it.
C4_Witness ==
  /\ Converted
  /\ pf.version >= 7
  /\ HeaderLength = 49
  /\ RoundedHeaderLength = 64
  /\ Len(pf.all_decompressed_data) > 0
  /\ SizeField = Len(pf.file)
  /\ Len(pf.file) > RoundedHeaderLength + Len(pf.new_block_info_blob)

\* The vector decompress_block returns for block j of the input table, read
\* from the compressed_size(j) bytes behind those of the blocks before it.
BlockSource(j) ==
  Slice(pf.raw_file, pf.data_start + SumStored(pf.blocks, j - 1),
        pf.blocks[j].compressed_size)

IsResultOf(raw, j) ==
  \E o \in OraclesFor(get_compression(pf.blocks[j].flags), BlockSource(j),
                      pf.blocks[j].uncompressed_size, pf.game_mode, pf.mem) :
    raw = decompress_block(get_compression(pf.blocks[j].flags),
                           BlockSource(j), pf.blocks[j].uncompressed_size,
                           pf.game_mode, o).data

\* C5: at every moment the payload collected is the concatenation, in table
\* order, of the results of the blocks decompressed so far, block j decoded
\* from the compressed_size(j) input bytes that follow those of block j-1;
\* the payload written is that concatenation over all the blocks.
C5_PayloadInOrder ==
  /\ pf.all_decompressed_data = Concat(pf.results)
  /\ Len(pf.results) <= Len(pf.blocks)
  /\ pf.pc = "blocks" => Len(pf.results) = pf.i
  /\ \A j \in 1..Len(pf.results) : IsResultOf(pf.results[j], j)
  /\ pf.pc = "done" => Len(pf.results) = Len(pf.blocks)
  /\ Converted => OutPayload = Concat(pf.results)

C5_Witness ==
  /\ Converted
  /\ Len(pf.results) = 2
  /\ pf.results[1] # <<>>
  /\ pf.results[2] # <<>>
  /\ pf.results[1] # pf.results[2]
  /\ OutPayload = pf.results[1] \o pf.results[2]

\* The errors that leave decompress_block: those of the codecs, and that of
\* an allocation the environment does not grant.
BlockErrors == CodecErrors \cup {"bad_alloc"}

\* C6: when decompress_block fails for a block or for the block table, the
\* conversion ends with an error: the loop does not go on to a later block,
\* and not one byte of header, table or payload has been written.
C6_CodecErrorAborts ==
  (pf.failed # -1 \/ pf.table_failed) =>
     /\ pf.pc = "error"
     /\ pf.err \in BlockErrors
     /\ pf.out = <<>>
     /\ pf.file = <<>>
     /\ pf.failed # -1 => pf.i = pf.failed /\ Len(pf.results) = pf.failed

C6_Witness ==
  /\ pf.pc = "error"
  /\ pf.err \in CodecErrors
  /\ pf.failed = 1
  /\ Len(pf.results) = 1
  /\ Len(pf.blocks) = 2
  /\ pf.opened
  /\ pf.out = <<>>

====
